---------------------------- MODULE Spec2Model ----------------------------
(***************************************************************************)
(* PHI detection pipeline of asoundmind/phi-detector:                      *)
(*   Patterns.detect_all  (src/src/patterns.py)                            *)
(*   NERDetector          (src/src/ner_detector.py)                        *)
(*   PHIDetector.analyze / _merge_detections / _calculate_risk /           *)
(*   _redact_text         (src/src/phi_detector.py)                        *)
(*                                                                         *)
(* A text is a sequence of one-character strings; offsets are Python's     *)
(* 0-based offsets, so the character at offset i is text[i + 1].           *)
(* A confidence is held in hundredths (0.85 is 85).                        *)
(***************************************************************************)
EXTENDS Integers, Sequences, FiniteSets, TLC

VARIABLES pc, nlp, text, pattern_results, ner_results, merged_detections,
          risk_level, redacted_text, has_phi, raised

\* the callers of one PHIDetector and the local variables of their calls
VARIABLES callers, frames

\* the reasoning chain a method of the chatbot layer has built and the type
\* of message it has returned
VARIABLES chain, msg_type

analyze_vars == <<pc, nlp, text, pattern_results, ner_results, merged_detections,
                  risk_level, redacted_text, has_phi, raised>>

\* the collaborators of a ChatBot (what each gives when it is called), the
\* calls made to them, the context passages of a retrieval and the value a
\* method of the ChatBot has returned
VARIABLES phi_detector, rag, llm, calls, context_chunks, returned

chat_vars == <<phi_detector, rag, llm, calls, context_chunks, returned>>

layer_vars == <<callers, frames, chain, msg_type, chat_vars>>

vars == <<analyze_vars, layer_vars>>

---------------------------------------------------------------------------
(* Characters and Python string primitives                                 *)

DigitChars == <<"0", "1", "2", "3", "4", "5", "6", "7", "8", "9">>

LowerChars == <<"a", "b", "c", "d", "e", "f", "g", "h", "i", "j", "k", "l", "m", "n", "o", "p", "q", "r", "s", "t", "u", "v", "w", "x", "y", "z">>

UpperChars == <<"A", "B", "C", "D", "E", "F", "G", "H", "I", "J", "K", "L", "M", "N", "O", "P", "Q", "R", "S", "T", "U", "V", "W", "X", "Y", "Z">>

Range(s) == {s[i] : i \in 1..Len(s)}

Digits == Range(DigitChars)

Letters == Range(LowerChars) \cup Range(UpperChars)

\* \s of the re module, on the characters the texts are written in
SpaceChars == {" ", "\n", "\t"}

\* \w of the re module
WordChars == Digits \cup Letters \cup {"_"}

Min(a, b) == IF a < b THEN a ELSE b

Max(a, b) == IF a > b THEN a ELSE b

\* s[a:b] for offsets a, b >= 0 (Python clips both to len(s))
Slice(s, a, b) ==
    LET lo == Min(a, Len(s))
        hi == Min(b, Len(s))
    IN  IF lo >= hi THEN <<>> ELSE SubSeq(s, lo + 1, hi)

\* the character at offset i, "" outside the text
At(s, i) == IF 0 <= i /\ i < Len(s) THEN s[i + 1] ELSE ""

IndexIn(chars, c) == CHOOSE i \in 1..Len(chars) : chars[i] = c

\* int(d) for one digit character
DigitVal(c) == IndexIn(DigitChars, c) - 1

\* str.upper() and str.lower(), character by character
UpperChar(c) == IF c \in Range(LowerChars) THEN UpperChars[IndexIn(LowerChars, c)] ELSE c

LowerChar(c) == IF c \in Range(UpperChars) THEN LowerChars[IndexIn(UpperChars, c)] ELSE c

Upper(s) == [i \in 1..Len(s) |-> UpperChar(s[i])]

Lower(s) == [i \in 1..Len(s) |-> LowerChar(s[i])]

\* s.replace(a, b) for single characters a, b
ReplaceChar(s, a, b) == [i \in 1..Len(s) |-> IF s[i] = a THEN b ELSE s[i]]

\* s.replace(a, '') for a single character a
RemoveChar(s, a) == SelectSeq(s, LAMBDA c : c # a)

\* needle in s
Contains(s, needle) ==
    \E i \in 0..(Len(s) - Len(needle)) : Slice(s, i, i + Len(needle)) = needle

---------------------------------------------------------------------------
(* The compiled patterns of Patterns.__init__, as matchers: each gives the *)
(* end offset of the match the re module finds starting at offset i, or    *)
(* NoMatch.                                                                *)

NoMatch == -1

\* \b at offset i
WordBoundary(s, i) == (At(s, i - 1) \in WordChars) # (At(s, i) \in WordChars)

\* \d{n} at offset i
DigitsAt(s, i, n) == \A k \in 0..(n - 1) : At(s, i + k) \in Digits

\* the length of the longest run of characters of class cls from offset i
RECURSIVE RunLen(_, _, _)
RunLen(s, i, cls) == IF At(s, i) \in cls THEN 1 + RunLen(s, i + 1, cls) ELSE 0

\* [-\s]? at offset i: the offset after it (taking the separator cannot be
\* undone by backtracking, a digit has to follow)
OptSep(s, i) == IF At(s, i) \in ({"-"} \cup SpaceChars) THEN i + 1 ELSE i

\* sin_pattern  \b\d{3}[-\s]?\d{3}[-\s]?\d{3}\b
sin_pattern(s, i) ==
    LET g2 == OptSep(s, i + 3)
        g3 == OptSep(s, g2 + 3)
    IN  IF /\ WordBoundary(s, i)
           /\ DigitsAt(s, i, 3) /\ DigitsAt(s, g2, 3) /\ DigitsAt(s, g3, 3)
           /\ WordBoundary(s, g3 + 3)
        THEN g3 + 3 ELSE NoMatch

\* phn_pattern  \b\d{10}\b
phn_pattern(s, i) ==
    IF WordBoundary(s, i) /\ DigitsAt(s, i, 10) /\ WordBoundary(s, i + 10)
    THEN i + 10 ELSE NoMatch

\* phone_pattern
\* (?:\(\d{3}\)\s+\d{3}[-]\d{4}|\b\d{3}[-]\d{3}[-]\d{4}|\b\d{3}[.]\d{3}[.]\d{4})\b
phone_pattern(s, i) ==
    LET ws == RunLen(s, i + 5, SpaceChars)
        a  == i + 5 + ws
        alt1 == /\ At(s, i) = "(" /\ DigitsAt(s, i + 1, 3) /\ At(s, i + 4) = ")"
                /\ ws >= 1
                /\ DigitsAt(s, a, 3) /\ At(s, a + 3) = "-" /\ DigitsAt(s, a + 4, 4)
                /\ WordBoundary(s, a + 8)
        alt23(sep) == /\ WordBoundary(s, i)
                      /\ DigitsAt(s, i, 3) /\ At(s, i + 3) = sep
                      /\ DigitsAt(s, i + 4, 3) /\ At(s, i + 7) = sep
                      /\ DigitsAt(s, i + 8, 4)
                      /\ WordBoundary(s, i + 12)
    IN  IF alt1 THEN a + 8
        ELSE IF alt23("-") \/ alt23(".") THEN i + 12
        ELSE NoMatch

\* email_pattern  \b[A-Za-z0-9._%+-]+@[A-Za-z0-9.-]+\.[A-Z|a-z]{2,}\b
EmailLocalChars == Letters \cup Digits \cup {".", "_", "%", "+", "-"}

EmailDomainChars == Letters \cup Digits \cup {".", "-"}

EmailTldChars == Letters \cup {"|"}

\* the greedy quantifiers give the longest domain first and, for it, the longest
\* top-level part that ends on a word boundary
email_pattern(s, i) ==
    LET local == RunLen(s, i, EmailLocalChars)
        d0    == i + local + 1
        dmax  == RunLen(s, d0, EmailDomainChars)
        TldEnds(k) == {d0 + k + 1 + m : m \in
                         {m \in 2..RunLen(s, d0 + k + 1, EmailTldChars) :
                             WordBoundary(s, d0 + k + 1 + m)}}
        Ks == {k \in 1..dmax : At(s, d0 + k) = "." /\ TldEnds(k) # {}}
        k  == CHOOSE k \in Ks : \A j \in Ks : j <= k
    IN  IF WordBoundary(s, i) /\ local >= 1 /\ At(s, i + local) = "@" /\ Ks # {}
        THEN CHOOSE e \in TldEnds(k) : \A f \in TldEnds(k) : f <= e
        ELSE NoMatch

\* credit_card_pattern  \b\d{4}[-\s]?\d{4}[-\s]?\d{4}[-\s]?\d{4}\b
credit_card_pattern(s, i) ==
    LET g2 == OptSep(s, i + 4)
        g3 == OptSep(s, g2 + 4)
        g4 == OptSep(s, g3 + 4)
    IN  IF /\ WordBoundary(s, i)
           /\ DigitsAt(s, i, 4) /\ DigitsAt(s, g2, 4)
           /\ DigitsAt(s, g3, 4) /\ DigitsAt(s, g4, 4)
           /\ WordBoundary(s, g4 + 4)
        THEN g4 + 4 ELSE NoMatch

\* postal_code_pattern  \b[A-Z]\d[A-Z]\s?\d[A-Z]\d\b with re.IGNORECASE
postal_code_pattern(s, i) ==
    LET h == IF At(s, i + 3) \in SpaceChars THEN i + 4 ELSE i + 3
    IN  IF /\ WordBoundary(s, i)
           /\ At(s, i) \in Letters /\ At(s, i + 1) \in Digits /\ At(s, i + 2) \in Letters
           /\ At(s, h) \in Digits /\ At(s, h + 1) \in Letters /\ At(s, h + 2) \in Digits
           /\ WordBoundary(s, h + 3)
        THEN h + 3 ELSE NoMatch

\* \d{1,3}\. at offset i: the offset after the dot, or NoMatch
OctetDot(s, i) ==
    LET n == RunLen(s, i, Digits)
    IN  IF i # NoMatch /\ n >= 1 /\ n <= 3 /\ At(s, i + n) = "." THEN i + n + 1 ELSE NoMatch

\* ip_pattern  \b(?:\d{1,3}\.){3}\d{1,3}\b
ip_pattern(s, i) ==
    LET g4 == OctetDot(s, OctetDot(s, OctetDot(s, i)))
        n  == RunLen(s, g4, Digits)
    IN  IF /\ WordBoundary(s, i) /\ g4 # NoMatch
           /\ n >= 1 /\ n <= 3 /\ WordBoundary(s, g4 + n)
        THEN g4 + n ELSE NoMatch

\* \d{lo,hi}[-/] at offset i: the offset after the separator, or NoMatch
DigitsSep(s, i, lo, hi) ==
    LET n == RunLen(s, i, Digits)
    IN  IF i # NoMatch /\ n >= lo /\ n <= hi /\ At(s, i + n) \in {"-", "/"}
        THEN i + n + 1 ELSE NoMatch

\* date_pattern  \b(?:\d{1,2}[-/]\d{1,2}[-/]\d{4}|\d{4}[-/]\d{1,2}[-/]\d{1,2})\b
date_pattern(s, i) ==
    LET y1 == DigitsSep(s, DigitsSep(s, i, 1, 2), 1, 2)
        d2 == DigitsSep(s, DigitsSep(s, i, 4, 4), 1, 2)
        n2 == RunLen(s, d2, Digits)
    IN  IF ~WordBoundary(s, i) THEN NoMatch
        ELSE IF y1 # NoMatch /\ DigitsAt(s, y1, 4) /\ WordBoundary(s, y1 + 4) THEN y1 + 4
        ELSE IF d2 # NoMatch /\ n2 >= 1 /\ n2 <= 2 /\ WordBoundary(s, d2 + n2) THEN d2 + n2
        ELSE NoMatch

\* pattern.finditer(s) from the end offsets ends[i] of the matches at each
\* offset i: the matches <<start, end>>, leftmost first, each search resuming
\* where the last match ended
RECURSIVE finditer(_, _)
finditer(ends, pos) ==
    IF pos \notin DOMAIN ends THEN <<>>
    ELSE IF ends[pos] = NoMatch THEN finditer(ends, pos + 1)
    ELSE <<(<<pos, ends[pos]>>)>>
         \o finditer(ends, IF ends[pos] > pos THEN ends[pos] ELSE pos + 1)

\* the one element of a one-element set: Only({e(x) : x \in {v}}) is e(v)
\* with v computed once
Only(S) == CHOOSE x \in S : TRUE

---------------------------------------------------------------------------
(* Detections: the dictionaries the detectors build                        *)

Det(type, value, start, end, confidence, hipaa_identifier) ==
    [type |-> type, value |-> value, start |-> start, end |-> end,
     confidence |-> confidence, hipaa_identifier |-> hipaa_identifier]

RECURSIVE SumSeq(_)
SumSeq(s) == IF s = <<>> THEN 0 ELSE Head(s) + SumSeq(Tail(s))

\* a faulty variant of the sort: the list is left as it was put together
SortByStartOmitted(s) == s

\* list.sort(key=lambda x: x['start']): stable, ascending by start
RECURSIVE InsertByStart(_, _)
InsertByStart(sorted, d) ==
    IF sorted = <<>> THEN <<d>>
    ELSE IF sorted[Len(sorted)].start <= d.start THEN Append(sorted, d)
    ELSE Append(InsertByStart(SubSeq(sorted, 1, Len(sorted) - 1), d), sorted[Len(sorted)])

RECURSIVE SortByStart(_)
SortByStart(s) ==
    IF s = <<>> THEN <<>>
    ELSE InsertByStart(SortByStart(SubSeq(s, 1, Len(s) - 1)), s[Len(s)])

\* sorted(..., key=lambda x: x['start'], reverse=True): stable, descending by start
RECURSIVE InsertByStartDesc(_, _)
InsertByStartDesc(sorted, d) ==
    IF sorted = <<>> THEN <<d>>
    ELSE IF sorted[Len(sorted)].start >= d.start THEN Append(sorted, d)
    ELSE Append(InsertByStartDesc(SubSeq(sorted, 1, Len(sorted) - 1), d), sorted[Len(sorted)])

RECURSIVE SortByStartDesc(_)
SortByStartDesc(s) ==
    IF s = <<>> THEN <<>>
    ELSE InsertByStartDesc(SortByStartDesc(SubSeq(s, 1, Len(s) - 1)), s[Len(s)])

\* match.group() of a match m = <<start, end>>
Group(s, m) == Slice(s, m[1], m[2])

\* match.group().replace('-', '').replace(' ', '')
Clean(s, m) == RemoveChar(RemoveChar(Group(s, m), "-"), " ")

\* a faulty variant of the dictionary: the start counted from 1
MatchDetFromOne(s, m, type, confidence, hipaa_identifier) ==
    Det(type, Group(s, m), m[1] + 1, m[2], confidence, hipaa_identifier)

\* the dictionary a detect_* method appends for a match
MatchDet(s, m, type, confidence, hipaa_identifier) ==
    Det(type, Group(s, m), m[1], m[2], confidence, hipaa_identifier)

detect_sin(s) ==
    Only({[k \in 1..Len(kept) |->
              MatchDet(s, kept[k], "Social Insurance Number (SIN)", 85,
                       "National identification number")] :
          kept \in {SelectSeq(finditer([i \in 0..Len(s) |-> sin_pattern(s, i)], 0),
                              LAMBDA m : Cardinality(Range(Clean(s, m))) > 1)}})

PhnKeywords == <<<<"p", "h", "n">>,
                 <<"h", "e", "a", "l", "t", "h", " ", "n", "u", "m", "b", "e", "r">>,
                 <<"c", "a", "r", "e", " ", "c", "a", "r", "d">>,
                 <<"b", "c", " ", "h", "e", "a", "l", "t", "h">>>>

PhnContextWidth == 20

PhnConfidence(s, m) ==
    LET start   == Max(0, m[1] - PhnContextWidth)
        end     == Min(Len(s), m[2] + PhnContextWidth)
        context == Lower(Slice(s, start, end))
    IN  IF \E k \in 1..Len(PhnKeywords) : Contains(context, PhnKeywords[k]) THEN 90 ELSE 50

detect_phn(s) ==
    Only({[k \in 1..Len(ms) |->
              MatchDet(s, ms[k], "Personal Health Number (PHN)", PhnConfidence(s, ms[k]),
                       "Health plan beneficiary number")] :
          ms \in {finditer([i \in 0..Len(s) |-> phn_pattern(s, i)], 0)}})

detect_phone(s) ==
    Only({[k \in 1..Len(ms) |-> MatchDet(s, ms[k], "Phone Number", 80, "Telephone number")] :
          ms \in {finditer([i \in 0..Len(s) |-> phone_pattern(s, i)], 0)}})

detect_email(s) ==
    Only({[k \in 1..Len(ms) |-> MatchDet(s, ms[k], "Email Address", 95, "Email address")] :
          ms \in {finditer([i \in 0..Len(s) |-> email_pattern(s, i)], 0)}})

\* a faulty variant of the doubling: the doubled digit itself, not the sum of
\* its digits
DoubledDigit(d) == 2 * d

\* sum(digits_of(d * 2)) for a digit d
DoubledDigitSum(d) == IF 2 * d >= 10 THEN 1 + (2 * d - 10) ELSE 2 * d

\* one term of the checksum of _luhn_check: digits[-1::-2] are summed as they
\* are, digits[-2::-2] doubled
LuhnTerm(card_number, i) ==
    IF (Len(card_number) - i) % 2 = 0
    THEN DigitVal(card_number[i])
    ELSE DoubledDigitSum(DigitVal(card_number[i]))

_luhn_check(card_number) ==
    SumSeq([i \in 1..Len(card_number) |-> LuhnTerm(card_number, i)]) % 10 = 0

\* int(d) raises ValueError for a character that is no digit: a separator that
\* replace('-', '').replace(' ', '') leaves in the candidate
luhn_raises(card_number) == \E i \in 1..Len(card_number) : card_number[i] \notin Digits

credit_card_finditer(s) == finditer([i \in 0..Len(s) |-> credit_card_pattern(s, i)], 0)

detect_credit_card_raises(s) ==
    \E m \in Range(credit_card_finditer(s)) : luhn_raises(Clean(s, m))

detect_credit_card(s) ==
    Only({[k \in 1..Len(kept) |->
              MatchDet(s, kept[k], "Credit Card Number", 90, "Account number")] :
          kept \in {SelectSeq(credit_card_finditer(s), LAMBDA m : _luhn_check(Clean(s, m)))}})

detect_postal_code(s) ==
    Only({[k \in 1..Len(ms) |->
              MatchDet(s, ms[k], "Postal Code", 85, "Geographic subdivision (postal code)")] :
          ms \in {finditer([i \in 0..Len(s) |-> postal_code_pattern(s, i)], 0)}})

\* int(octet) for a run of digits
RECURSIVE IntOf(_)
IntOf(ds) == IF ds = <<>> THEN 0 ELSE 10 * IntOf(SubSeq(ds, 1, Len(ds) - 1)) + DigitVal(ds[Len(ds)])

\* match.group().split('.')
RECURSIVE SplitDots(_)
SplitDots(s) ==
    IF RunLen(s, 0, Digits) = Len(s) THEN <<s>>
    ELSE <<Slice(s, 0, RunLen(s, 0, Digits))>>
         \o SplitDots(Slice(s, RunLen(s, 0, Digits) + 1, Len(s)))

OctetMax == 255

\* a faulty variant of the range test: the first group alone is tested
FirstOctetInRange(g) ==
    0 <= IntOf(SplitDots(g)[1]) /\ IntOf(SplitDots(g)[1]) <= OctetMax

\* all(0 <= int(octet) <= 255 for octet in octets)
OctetsInRange(g) ==
    \A octet \in Range(SplitDots(g)) : 0 <= IntOf(octet) /\ IntOf(octet) <= OctetMax

detect_ip(s) ==
    Only({[k \in 1..Len(kept) |-> MatchDet(s, kept[k], "IP Address", 90, "IP address")] :
          kept \in {SelectSeq(finditer([i \in 0..Len(s) |-> ip_pattern(s, i)], 0),
                              LAMBDA m : OctetsInRange(Group(s, m)))}})

detect_date(s) ==
    Only({[k \in 1..Len(ms) |-> MatchDet(s, ms[k], "Date", 70, "Date element")] :
          ms \in {finditer([i \in 0..Len(s) |-> date_pattern(s, i)], 0)}})

\* a faulty variant of the loop: the key is the type alone
RECURSIVE UniqueByType(_)
UniqueByType(all_results) ==
    IF all_results = <<>> THEN <<>>
    ELSE LET init   == SubSeq(all_results, 1, Len(all_results) - 1)
             result == all_results[Len(all_results)]
         IN  IF \E j \in 1..Len(init) : init[j].type = result.type
             THEN UniqueByType(init)
             ELSE Append(UniqueByType(init), result)

\* the loop over all_results that keeps the first detection of each
\* (start, end, type)
RECURSIVE Unique(_)
Unique(all_results) ==
    IF all_results = <<>> THEN <<>>
    ELSE LET init   == SubSeq(all_results, 1, Len(all_results) - 1)
             result == all_results[Len(all_results)]
             key(r) == <<r.start, r.end, r.type>>
         IN  IF \E j \in 1..Len(init) : key(init[j]) = key(result)
             THEN Unique(init)
             ELSE Append(Unique(init), result)

AllResults(s) ==
    detect_sin(s) \o detect_phn(s) \o detect_phone(s) \o detect_email(s)
    \o detect_credit_card(s) \o detect_postal_code(s) \o detect_ip(s) \o detect_date(s)

\* detect_all raises what detect_credit_card raises
detect_all_raises(s) == detect_credit_card_raises(s)

detect_all(s) == SortByStart(Unique(AllResults(s)))

---------------------------------------------------------------------------
(* NERDetector.detect_entities over the entities doc.ents of the spaCy      *)
(* model, which is an external producer: an entity is                      *)
(* [label_, text, start_char, end_char]                                    *)

Ent(label_, ent_text, start_char, end_char) ==
    [label_ |-> label_, text |-> ent_text, start_char |-> start_char, end_char |-> end_char]

MappedLabels == {"PERSON", "GPE", "LOC", "ORG", "DATE"}

entity_type_map(label_) ==
    CASE label_ = "PERSON" -> "NAME"
      [] label_ = "GPE"    -> "LOCATION"
      [] label_ = "LOC"    -> "LOCATION"
      [] label_ = "ORG"    -> "ORGANIZATION"
      [] label_ = "DATE"   -> "DATE"

hipaa_identifiers(label_) ==
    CASE label_ = "PERSON" -> "#1 - Names"
      [] label_ = "DATE"   -> "#7 - Dates"
      [] label_ = "GPE"    -> "#4 - Geographic subdivisions"
      [] label_ = "LOC"    -> "#4 - Geographic subdivisions"
      [] label_ = "ORG"    -> "Organization name (potential identifier)"

detect_entities(ents) ==
    LET kept == SelectSeq(ents, LAMBDA ent : ent.label_ \in MappedLabels)
    IN  SortByStart([k \in 1..Len(kept) |->
            Det(entity_type_map(kept[k].label_), kept[k].text, kept[k].start_char,
                kept[k].end_char, 85, hipaa_identifiers(kept[k].label_))])

---------------------------------------------------------------------------
(* PHIDetector                                                             *)

\* a faulty variant of the overlap test: spans that only touch count as
\* overlapping
OverlapsOrTouches(ner_item, pattern_item) ==
    ~(ner_item.end < pattern_item.start \/ ner_item.start > pattern_item.end)

\* the overlap test of _merge_detections
Overlaps(ner_item, pattern_item) ==
    ~(ner_item.end <= pattern_item.start \/ ner_item.start >= pattern_item.end)

_merge_detections(pattern_res, ner_res) ==
    LET kept == SelectSeq(ner_res, LAMBDA ner_item :
                    ~\E k \in 1..Len(pattern_res) : Overlaps(ner_item, pattern_res[k]))
    IN  SortByStart(pattern_res \o kept)

\* faulty: merged = pattern_results, the name is bound to the argument itself
MergedObjectAliased(argument) == argument

\* merged = list(pattern_results): the name merged is bound to a new list
\* object, whatever the argument
MergedObject(argument) == "merged"

\* the list objects when _merge_detections returns: merged.append and
\* merged.sort write to the object merged is bound to, nothing else is
\* written to
merge_objects(objects) ==
    [objects EXCEPT ![MergedObject("pattern_results")] =
        _merge_detections(objects.pattern_results, objects.ner_results)]

\* a faulty variant of the high-risk set: the health number is left out
high_risk_types_without_phn ==
    {"Social Insurance Number (SIN)", "Credit Card Number", "SSN", "CreditCard"}

high_risk_types ==
    {"Social Insurance Number (SIN)", "Credit Card Number", "SSN", "CreditCard",
     "Personal Health Number (PHN)"}

MediumCount == 3

\* a faulty variant of the risk level: MEDIUM only above three detections
_calculate_risk_above_three(detections) ==
    IF detections = <<>> THEN "LOW"
    ELSE IF \E k \in 1..Len(detections) : detections[k].type \in high_risk_types THEN "HIGH"
    ELSE IF Len(detections) > MediumCount THEN "MEDIUM"
    ELSE "LOW"

\* a faulty variant of the risk level: MEDIUM for exactly three detections
_calculate_risk_exactly_three(detections) ==
    IF detections = <<>> THEN "LOW"
    ELSE IF \E k \in 1..Len(detections) : detections[k].type \in high_risk_types THEN "HIGH"
    ELSE IF Len(detections) = MediumCount THEN "MEDIUM"
    ELSE "LOW"

_calculate_risk(detections) ==
    IF detections = <<>> THEN "LOW"
    ELSE IF \E k \in 1..Len(detections) : detections[k].type \in high_risk_types THEN "HIGH"
    ELSE IF Len(detections) >= MediumCount THEN "MEDIUM"
    ELSE "LOW"

\* the type names the detectors, the risk sets and the tests use, and their
\* spelling as characters
TypeNames ==
    <<"Social Insurance Number (SIN)", "Personal Health Number (PHN)", "Phone Number",
      "Email Address", "Credit Card Number", "Postal Code", "IP Address", "Date",
      "NAME", "LOCATION", "ORGANIZATION", "DATE", "SSN", "CreditCard", "Email">>

TypeSpelling ==
    <<<<"S", "o", "c", "i", "a", "l", " ", "I", "n", "s", "u", "r", "a", "n", "c", "e", " ", "N", "u", "m", "b", "e", "r", " ", "(", "S", "I", "N", ")">>,
      <<"P", "e", "r", "s", "o", "n", "a", "l", " ", "H", "e", "a", "l", "t", "h", " ", "N", "u", "m", "b", "e", "r", " ", "(", "P", "H", "N", ")">>,
      <<"P", "h", "o", "n", "e", " ", "N", "u", "m", "b", "e", "r">>,
      <<"E", "m", "a", "i", "l", " ", "A", "d", "d", "r", "e", "s", "s">>,
      <<"C", "r", "e", "d", "i", "t", " ", "C", "a", "r", "d", " ", "N", "u", "m", "b", "e", "r">>,
      <<"P", "o", "s", "t", "a", "l", " ", "C", "o", "d", "e">>,
      <<"I", "P", " ", "A", "d", "d", "r", "e", "s", "s">>,
      <<"D", "a", "t", "e">>,
      <<"N", "A", "M", "E">>,
      <<"L", "O", "C", "A", "T", "I", "O", "N">>,
      <<"O", "R", "G", "A", "N", "I", "Z", "A", "T", "I", "O", "N">>,
      <<"D", "A", "T", "E">>,
      <<"S", "S", "N">>,
      <<"C", "r", "e", "d", "i", "t", "C", "a", "r", "d">>,
      <<"E", "m", "a", "i", "l">>>>

TypeChars(type) == TypeSpelling[CHOOSE i \in 1..Len(TypeNames) : TypeNames[i] = type]

\* a faulty variant of the placeholder: the spaces of the type are kept
PlaceholderWithSpaces(type) == <<"[">> \o Upper(TypeChars(type)) \o <<"]">>

\* f"[{detection['type'].upper().replace(' ', '_')}]"
Placeholder(type) == <<"[">> \o ReplaceChar(Upper(TypeChars(type)), " ", "_") \o <<"]">>

\* redacted = redacted[:start] + placeholder + redacted[end:]
Splice(redacted, detection) ==
    Slice(redacted, 0, detection.start) \o Placeholder(detection.type)
    \o Slice(redacted, detection.end, Len(redacted))

RECURSIVE SpliceAll(_, _)
SpliceAll(redacted, sorted_detections) ==
    IF sorted_detections = <<>> THEN redacted
    ELSE SpliceAll(Splice(redacted, Head(sorted_detections)), Tail(sorted_detections))

\* a faulty variant of the redaction: the empty string for no detection
_redact_text_blank_when_empty(t, detections) ==
    IF detections = <<>> THEN <<>>
    ELSE SpliceAll(t, SortByStartDesc(detections))

\* a faulty variant of the redaction: the splices are made from the left
_redact_text_ascending(t, detections) ==
    IF detections = <<>> THEN t
    ELSE SpliceAll(t, SortByStart(detections))

_redact_text(t, detections) ==
    IF detections = <<>> THEN t
    ELSE SpliceAll(t, SortByStartDesc(detections))

\* faulty: detections.sort(...), the argument itself is sorted
SortedObjectInPlace(argument) == argument

\* sorted_detections = sorted(detections, ...): a new list object
SortedObject(argument) == "sorted_detections"

\* the list objects when _redact_text returns: the sort is the one write
redact_objects(objects) ==
    IF objects.detections = <<>> THEN objects
    ELSE [objects EXCEPT ![SortedObject("detections")] = SortByStartDesc(objects.detections)]

\* a faulty variant of has_phi: true only for two detections or more
HasPhiSeveral(detections) == Len(detections) > 1

\* a faulty variant of has_phi: >= for >
HasPhiAlways(detections) == Len(detections) >= 0

\* 'has_phi': len(merged_detections) > 0
HasPhi(detections) == Len(detections) > 0

---------------------------------------------------------------------------
(* Inputs                                                                  *)

\* the pieces the input texts are put together from
Tokens ==
    <<<<"1", "2", "3", "4", "5", "6", "7", "8", "9", "0">>,
      <<"@", "x", ".", "c", "o">>,
      <<" ">>,
      <<"1", "2", "3", "-", "4", "5", "6", "-", "7", "8", "9">>,
      <<"b", "o", "b">>,
      <<"6", "0", "4", "-", "5", "5", "5", "-", "1", "2", "3", "4", " ">>,
      <<"4", "5", "3", "2", "0", "1", "5", "1", "1", "2", "8", "3", "0", "3", "6", "6">>,
      <<"1", ".", "2", ".", "3", ".", "4">>,
      <<"4", "5", "3", "2", "\n", "0", "1", "5", "1", "\n", "1", "2", "8", "3", "\n", "0", "3", "6", "6">>>>

MaxTokens == 2

MaxNer == 1

MaxPos == 3

MaxItems == 3

RECURSIVE SeqsUpTo(_, _)
SeqsUpTo(S, n) ==
    IF n = 0 THEN {<<>>}
    ELSE LET shorter == SeqsUpTo(S, n - 1)
         IN  shorter \cup {Append(s, x) : s \in {q \in shorter : Len(q) = n - 1}, x \in S}

TokenSeqs == SeqsUpTo(1..Len(Tokens), MaxTokens)

RECURSIVE TextOf(_)
TextOf(toks) == IF toks = <<>> THEN <<>> ELSE Tokens[Head(toks)] \o TextOf(Tail(toks))

\* the offsets at which a token of the text starts or ends
Boundaries(toks) == {Len(TextOf(SubSeq(toks, 1, k))) : k \in 0..Len(toks)}

\* what the spaCy model may give for a text: entities over whole tokens with a
\* label detect_entities maps, an entity with a label it does not map, and
\* entities that break value = text[start:end] or start <= end
EntCandidates(toks) ==
    LET t  == TextOf(toks)
        bs == Boundaries(toks)
        b1 == Len(TextOf(SubSeq(toks, 1, 1)))
    IN  IF toks = <<>> THEN {}
        ELSE {Ent(l, Slice(t, p[1], p[2]), p[1], p[2]) :
                 l \in {"PERSON", "DATE"}, p \in {q \in bs \X bs : q[1] < q[2]}}
             \cup {Ent("MONEY", t, 0, Len(t)),
                   Ent("PERSON", Slice(t, 0, b1) \o <<"!">>, 0, b1),
                   Ent("PERSON", <<>>, b1, 0)}

\* the outcome of self.nlp(text): it raises, or gives doc.ents
NlpOutcomes(toks) ==
    {[raises |-> TRUE, ents |-> <<>>]}
    \cup {[raises |-> FALSE, ents |-> es] : es \in SeqsUpTo(EntCandidates(toks), MaxNer)}

---------------------------------------------------------------------------
(* Reasoning chains (src/src/chain_of_thought.py). An f-string is held as  *)
(* its template and the values formatted into it; a text of several lines  *)
(* is the sequence of its lines.                                           *)

Fmt(template, types, count, category) ==
    [template |-> template, types |-> types, count |-> count, category |-> category]

\* a string with nothing formatted into it
Txt(template) == Fmt(template, {}, 0, "")

ReasoningStep(step_num, description, findings, conclusion) ==
    [step_num |-> step_num, description |-> description, findings |-> findings,
     conclusion |-> conclusion]

\* ReasoningChain(title); no line stands for final_conclusion = None
ReasoningChain(title) ==
    [title |-> title, steps |-> <<>>, final_conclusion |-> <<>>, confidence |-> "None"]

NoChain == ReasoningChain("")

add_step(c, description, findings, conclusion) ==
    [c EXCEPT !.steps = Append(@, ReasoningStep(Len(@) + 1, description, findings, conclusion))]

set_conclusion(c, conclusion, confidence) ==
    [c EXCEPT !.final_conclusion = conclusion, !.confidence = confidence]

\* {d['type'] for d in detections}
DetectedTypes(detections) == {detections[k].type : k \in 1..Len(detections)}

\* the keys of type_counts in the order a dict keeps them: by first occurrence
TypeOrder(detections) ==
    LET firsts == SelectSeq([k \in 1..Len(detections) |-> k], LAMBDA k :
                      \A j \in 1..(k - 1) : detections[j].type # detections[k].type)
    IN  [i \in 1..Len(firsts) |-> detections[firsts[i]].type]

TypeCount(detections, det_type) ==
    Cardinality({k \in 1..Len(detections) : detections[k].type = det_type})

Category(det_type, critical, high, medium) ==
    IF det_type \in critical THEN "CRITICAL"
    ELSE IF det_type \in high THEN "HIGH"
    ELSE IF det_type \in medium THEN "MEDIUM"
    ELSE "UNKNOWN"

ChainEscalationCount == 5

\* a faulty variant of final_risk: >= for >
final_risk_from_five(detections, critical, high, medium) ==
    IF DetectedTypes(detections) \cap critical # {} THEN "CRITICAL"
    ELSE IF DetectedTypes(detections) \cap high # {} THEN "HIGH"
    ELSE IF DetectedTypes(detections) \cap medium # {}
         THEN IF Len(detections) >= ChainEscalationCount THEN "HIGH" ELSE "MEDIUM"
    ELSE "LOW"

\* final_risk of assess_risk when the list is not empty
final_risk(detections, critical, high, medium) ==
    IF DetectedTypes(detections) \cap critical # {} THEN "CRITICAL"
    ELSE IF DetectedTypes(detections) \cap high # {} THEN "HIGH"
    ELSE IF DetectedTypes(detections) \cap medium # {}
         THEN IF Len(detections) > ChainEscalationCount THEN "HIGH" ELSE "MEDIUM"
    ELSE "LOW"

\* risk_findings of assess_risk
risk_findings(detections, critical, high, medium) ==
    IF DetectedTypes(detections) \cap critical # {}
    THEN <<Fmt("CRITICAL types found: {critical_found}",
               DetectedTypes(detections) \cap critical, 0, ""),
           Txt("Triggers automatic CRITICAL classification")>>
    ELSE IF DetectedTypes(detections) \cap high # {}
    THEN <<Fmt("HIGH-RISK types found: {high_found}",
               DetectedTypes(detections) \cap high, 0, "")>>
    ELSE IF DetectedTypes(detections) \cap medium # {}
    THEN <<Fmt("MEDIUM-RISK types found: {medium_found}",
               DetectedTypes(detections) \cap medium, 0, "")>>
         \o (IF Len(detections) > ChainEscalationCount
             THEN <<Fmt("Multiple items ({len(detections)}) escalates risk",
                        {}, Len(detections), "")>>
             ELSE <<>>)
    ELSE <<>>

\* the lines that primary_factor adds to the conclusion: the part starts
\* with a line break, so an empty line comes first; none for None
primary_factor(detections, critical, high, medium) ==
    IF DetectedTypes(detections) \cap critical # {}
    THEN <<Txt(""), Fmt("Primary Factor: Presence of {critical_found}",
                        DetectedTypes(detections) \cap critical, 0, "")>>
    ELSE IF DetectedTypes(detections) \cap high # {}
    THEN <<Txt(""), Fmt("Primary Factor: Presence of {high_found}",
                        DetectedTypes(detections) \cap high, 0, "")>>
    ELSE IF DetectedTypes(detections) \cap medium # {}
    THEN IF Len(detections) > ChainEscalationCount
         THEN <<Txt(""), Fmt("Primary Factor: Multiple medium-risk items ({len(detections)} total)",
                             {}, Len(detections), "")>>
         ELSE <<Txt(""), Fmt("Primary Factor: Presence of {medium_found}",
                             DetectedTypes(detections) \cap medium, 0, "")>>
    ELSE <<>>

LinkabilityCount == 3

\* RiskAssessmentReasoning.assess_risk
assess_risk(detections, critical, high, medium) ==
    IF detections = <<>>
    THEN set_conclusion(
             add_step(ReasoningChain("Risk Level Assessment"),
                      "Cataloging detected PII", <<Txt("No PII detected")>>,
                      Txt("No privacy risk")),
             <<Txt("LOW")>>, "HIGH")
    ELSE set_conclusion(
             add_step(
               add_step(
                 add_step(ReasoningChain("Risk Level Assessment"),
                    "Cataloging detected PII types",
                    [i \in 1..Len(TypeOrder(detections)) |->
                        Fmt("{det_type}: {count} instance(s) [{category} category]",
                            {TypeOrder(detections)[i]},
                            TypeCount(detections, TypeOrder(detections)[i]),
                            Category(TypeOrder(detections)[i], critical, high, medium))],
                    Fmt("Found {len(detections)} PII items across {len(detected_types)} types",
                        DetectedTypes(detections), Len(detections), "")),
                 "Identifying highest risk elements",
                 risk_findings(detections, critical, high, medium),
                 Txt(final_risk(detections, critical, high, medium))),
               "Considering context and linkability",
               IF Cardinality(DetectedTypes(detections)) >= LinkabilityCount
               THEN <<Fmt("Multiple identifier types ({len(detected_types)}) increase linkability risk",
                          {}, Cardinality(DetectedTypes(detections)), "")>>
               ELSE <<Fmt("Limited identifier types ({len(detected_types)}) reduce linkability",
                          {}, Cardinality(DetectedTypes(detections)), "")>>,
               Txt("Context analysis complete")),
             <<Txt(final_risk(detections, critical, high, medium))>>
             \o primary_factor(detections, critical, high, medium)
             \o (IF Cardinality(DetectedTypes(detections)) >= LinkabilityCount
                 THEN <<Txt("Secondary Factors: High linkability (multiple identifier types)")>>
                 ELSE <<>>),
             "HIGH")

---------------------------------------------------------------------------
(* ChatBot._assess_risk_level (src/src/chatbot.py)                         *)

\* a faulty variant of the critical set: the Canadian identifiers and the
\* card number are left out
critical_types_without_canadian ==
    {"SSN", "MEDICAL_RECORD_NUMBER", "HEALTH_PLAN_NUMBER", "DIAGNOSIS_CODE", "PRESCRIPTION"}

critical_types ==
    {"SSN", "Social Insurance Number (SIN)", "MEDICAL_RECORD_NUMBER",
     "HEALTH_PLAN_NUMBER", "Personal Health Number (PHN)",
     "DIAGNOSIS_CODE", "PRESCRIPTION", "Credit Card Number"}

\* high_risk_types of _assess_risk_level
assess_high_risk_types ==
    {"CREDIT_CARD", "BANK_ACCOUNT", "DATE_OF_BIRTH", "BIOMETRIC", "FULL_FACE_PHOTO"}

medium_risk_types ==
    {"PERSON_NAME", "NAME", "Phone Number", "PHONE_NUMBER", "Email Address", "EMAIL",
     "IP Address", "IP_ADDRESS", "VEHICLE_ID", "Postal Code"}

EscalationCount == 5

\* the risk level _assess_risk_level returns
_assess_risk_level(detections) ==
    IF detections = <<>> THEN "LOW"
    ELSE IF DetectedTypes(detections) \cap critical_types # {} THEN "CRITICAL"
    ELSE IF DetectedTypes(detections) \cap assess_high_risk_types # {} THEN "HIGH"
    ELSE IF DetectedTypes(detections) \cap medium_risk_types # {}
         THEN IF Len(detections) > EscalationCount THEN "HIGH" ELSE "MEDIUM"
    ELSE "LOW"

\* no caller besides the one of the specification, nothing above analyze
\* no ChatBot: no collaborator, no call, nothing retrieved or returned
ChatDefaults ==
    /\ phi_detector = <<>>
    /\ rag = <<>>
    /\ llm = <<>>
    /\ calls = <<>>
    /\ context_chunks = <<>>
    /\ returned = <<>>

LayerDefaults ==
    /\ callers = <<>>
    /\ frames = <<>>
    /\ chain = NoChain
    /\ msg_type = ""
    /\ ChatDefaults

NoResult ==
    [pattern_results |-> <<>>, ner_results |-> <<>>, merged_detections |-> <<>>,
     risk_level |-> "", redacted_text |-> <<>>, has_phi |-> FALSE]

SetLocals(r) ==
    /\ pattern_results' = r.pattern_results
    /\ ner_results' = r.ner_results
    /\ merged_detections' = r.merged_detections
    /\ risk_level' = r.risk_level
    /\ redacted_text' = r.redacted_text
    /\ has_phi' = r.has_phi

\* the body of analyze once both detectors have returned
AnalyzeResult(t, pattern_res, ner_res) ==
    Only({[pattern_results |-> pattern_res, ner_results |-> ner_res,
           merged_detections |-> merged,
           risk_level |-> _calculate_risk(merged),
           redacted_text |-> _redact_text(t, merged),
           has_phi |-> HasPhi(merged)] :
          merged \in {_merge_detections(pattern_res, ner_res)}})

---------------------------------------------------------------------------
(* ChatBot._classify_message (src/src/chatbot.py) and the chains of        *)
(* ClassificationReasoning (src/src/chain_of_thought.py). re.search finds  *)
(* a match when the pattern matches at some offset.                        *)

\* None given as the text; it is no text: its one element is no character
NoneText == <<"None">>

\* a message that is no string: any object but a str and None
NotAString == <<"object">>

\* has_email: the pattern is the one of Patterns.email_pattern
has_email(message) ==
    \E i \in 0..Len(message) : email_pattern(message, i) # NoMatch

\* [-.]? at offset i: the offset after it
OptDashDot(s, i) == IF At(s, i) \in {"-", "."} THEN i + 1 ELSE i

\* has_phone  \b\d{3}[-.]?\d{3}[-.]?\d{4}\b
has_phone(message) ==
    \E i \in 0..Len(message) :
        \E g2 \in {OptDashDot(message, i + 3)} : \E g3 \in {OptDashDot(message, g2 + 3)} :
            /\ WordBoundary(message, i)
            /\ DigitsAt(message, i, 3) /\ DigitsAt(message, g2, 3) /\ DigitsAt(message, g3, 4)
            /\ WordBoundary(message, g3 + 4)

\* has_ssn  \b\d{3}-\d{2,3}-\d{3,4}\b
has_ssn(message) ==
    \E i \in 0..Len(message) : \E m \in 2..3 : \E n \in 3..4 :
        /\ WordBoundary(message, i)
        /\ DigitsAt(message, i, 3) /\ At(message, i + 3) = "-"
        /\ DigitsAt(message, i + 4, m) /\ At(message, i + 4 + m) = "-"
        /\ DigitsAt(message, i + 5 + m, n)
        /\ WordBoundary(message, i + 5 + m + n)

AccountWords ==
    {<<"a", "c", "c", "o", "u", "n", "t">>, <<"a", "c", "c", "t">>,
     <<"p", "a", "t", "i", "e", "n", "t">>}

\* \s* at offset i: the offset after it
SkipSpaces(s, i) == i + RunLen(s, i, SpaceChars)

\* c? at offset i: the offset after it
SkipChar(s, i, c) == IF At(s, i) = c THEN i + 1 ELSE i

\* has_account  \b(?:account|acct|patient)\s*#?\s*:?\s*[A-Z0-9]{5,}\b with
\* re.IGNORECASE: no character the optional parts skip can start the last
\* part, and that part ends on a word boundary only where its run ends
has_account(message) ==
    \E i \in 0..Len(message) : \E w \in AccountWords :
        /\ WordBoundary(message, i)
        /\ Lower(Slice(message, i, i + Len(w))) = w
        /\ \E f \in {SkipSpaces(message,
                        SkipChar(message,
                           SkipSpaces(message,
                              SkipChar(message, SkipSpaces(message, i + Len(w)), "#")),
                           ":"))} :
             \E n \in {RunLen(message, f, Letters \cup Digits)} :
                /\ n >= 5
                /\ WordBoundary(message, f + n)

DobWords ==
    {<<"d", "o", "b">>,
     <<"d", "a", "t", "e", " ", "o", "f", " ", "b", "i", "r", "t", "h">>,
     <<"b", "o", "r", "n">>}

\* has_dob  \b(?:dob|date of birth|born)[\s:]+\d{1,2}[/-]\d{1,2}[/-]\d{2,4}\b
\* searched in message_lower
has_dob(message_lower) ==
    \E i \in 0..Len(message_lower) : \E w \in DobWords :
        /\ WordBoundary(message_lower, i)
        /\ Slice(message_lower, i, i + Len(w)) = w
        /\ \E n \in {RunLen(message_lower, i + Len(w), SpaceChars \cup {":"})} :
             /\ n >= 1
             /\ \E y \in {DigitsSep(message_lower,
                             DigitsSep(message_lower, i + Len(w) + n, 1, 2), 1, 2)} :
                  /\ y # NoMatch
                  /\ \E m \in 2..4 :
                        DigitsAt(message_lower, y, m) /\ WordBoundary(message_lower, y + m)

\* the values of the dictionary patterns, in the order of its keys
PatternNames == <<"Email", "Phone", "SSN", "Account Number", "Date of Birth">>

patterns(message) ==
    <<has_email(message), has_phone(message), has_ssn(message), has_account(message),
      has_dob(Lower(message))>>

\* sum(patterns.values())
phi_count(found) == Cardinality({k \in 1..Len(found) : found[k]})

PiiTicketCount == 2

\* ClassificationReasoning.analyze_pii_patterns
analyze_pii_patterns(found) ==
    add_step(ReasoningChain("PII Pattern Analysis"),
             "Scanning for actual PII patterns",
             [k \in 1..Len(found) |->
                 IF found[k] THEN Fmt("{pattern_type} pattern detected", {PatternNames[k]}, 0, "")
                 ELSE Fmt("{pattern_type} pattern not found", {PatternNames[k]}, 0, "")]
             \o <<Fmt("Total PII patterns found: {pii_count}", {}, phi_count(found), "")>>,
             IF phi_count(found) >= PiiTicketCount
             THEN Fmt("Contains {pii_count} PII patterns -> Likely PII Support Ticket",
                      {}, phi_count(found), "")
             ELSE IF phi_count(found) = 1
             THEN Txt("Only 1 PII pattern -> Not enough for PII ticket classification")
             ELSE Txt("No PII patterns -> Not a PII ticket"))

dev_keywords ==
    <<<<"p", "m", " ">>,
      <<"p", "r", "o", "d", "u", "c", "t", " ", "m", "a", "n", "a", "g", "e", "r">>,
      <<"p", "r", "o", "j", "e", "c", "t", " ", "m", "a", "n", "a", "g", "e", "r">>,
      <<"d", "e", "v", "e", "l", "o", "p", "i", "n", "g">>,
      <<"b", "u", "i", "l", "d", "i", "n", "g">>,
      <<"c", "r", "e", "a", "t", "i", "n", "g">>,
      <<"i", "m", "p", "l", "e", "m", "e", "n", "t", "i", "n", "g">>,
      <<"f", "e", "a", "t", "u", "r", "e">>,
      <<"f", "u", "n", "c", "t", "i", "o", "n", "a", "l", "i", "t", "y">>,
      <<"s", "y", "s", "t", "e", "m">>,
      <<"a", "p", "p", "l", "i", "c", "a", "t", "i", "o", "n">>,
      <<"s", "t", "o", "r", "i", "n", "g">>,
      <<"s", "t", "o", "r", "e">>,
      <<"d", "a", "t", "a", "b", "a", "s", "e">>,
      <<"s", "a", "v", "e">>,
      <<"e", "n", "c", "r", "y", "p", "t", "i", "o", "n">>,
      <<"e", "n", "c", "r", "y", "p", "t">>,
      <<"s", "e", "c", "u", "r", "i", "t", "y", " ", "m", "e", "a", "s", "u", "r", "e">>,
      <<"t", "e", "c", "h", "n", "o", "l", "o", "g", "y">>,
      <<"t", "e", "c", "h", "n", "i", "c", "a", "l">>,
      <<"a", "r", "c", "h", "i", "t", "e", "c", "t", "u", "r", "e">>,
      <<"r", "e", "q", "u", "i", "r", "e", "m", "e", "n", "t">>,
      <<"c", "o", "m", "p", "l", "i", "a", "n", "c", "e">>,
      <<"r", "e", "g", "u", "l", "a", "t", "i", "o", "n">>,
      <<"c", "h", "a", "t", " ", "m", "e", "s", "s", "a", "g", "e">>,
      <<"m", "e", "s", "s", "a", "g", "i", "n", "g", " ", "s", "y", "s", "t", "e", "m">>,
      <<"c", "o", "m", "m", "u", "n", "i", "c", "a", "t", "i", "o", "n">>,
      <<"b", "e", "t", "w", "e", "e", "n", " ", "u", "s", "e", "r">>,
      <<"b", "e", "t", "w", "e", "e", "n", " ", "p", "a", "t", "i", "e", "n", "t">>,
      <<"b", "e", "t", "w", "e", "e", "n", " ", "c", "l", "i", "e", "n", "t">>>>

question_words ==
    <<<<"s", "h", "o", "u", "l", "d">>,
      <<"n", "e", "e", "d">>,
      <<"r", "e", "q", "u", "i", "r", "e">>,
      <<"m", "u", "s", "t">>,
      <<"r", "e", "c", "o", "m", "m", "e", "n", "d">>,
      <<"w", "h", "a", "t">>,
      <<"h", "o", "w">>>>

\* [ind for ind in dev_keywords if ind in message_lower]
found_indicators(message_lower) ==
    SelectSeq(dev_keywords, LAMBDA ind : Contains(message_lower, ind))

\* any(qw in message_lower for qw in question_words)
has_questions(message_lower) ==
    \E k \in 1..Len(question_words) : Contains(message_lower, question_words[k])

DevTicketCount == 2

\* ClassificationReasoning.analyze_dev_indicators
analyze_dev_indicators(indicators, questions) ==
    set_conclusion(
        add_step(
            add_step(ReasoningChain("Development Ticket Analysis"),
                     "Checking for development/PM indicators",
                     IF indicators # <<>>
                     THEN [k \in 1..Len(indicators) |-> Fmt("Found: '{ind}'", {indicators[k]}, 0, "")]
                          \o <<Fmt("Total: {len(indicators)} development indicators",
                                   {}, Len(indicators), "")>>
                     ELSE <<Txt("No development keywords found")>>,
                     IF indicators # <<>>
                     THEN Fmt("{len(indicators)} indicators present", {}, Len(indicators), "")
                     ELSE Txt("Not a development ticket")),
            "Analyzing question patterns",
            IF questions
            THEN <<Txt("Contains question words (should, need, require, what, how)")>>
            ELSE <<Txt("No question words found")>>,
            IF questions THEN Txt("Message is asking questions")
            ELSE Txt("Not phrased as questions")),
        IF Len(indicators) >= DevTicketCount /\ questions
        THEN <<Txt("Development/Requirements Ticket")>>
        ELSE <<Txt("Not a development ticket")>>,
        "HIGH")

\* not message or not message.strip()
IsBlank(message) ==
    message = NoneText \/ \A k \in 1..Len(message) : message[k] \in SpaceChars

\* what _classify_message returns; the label alone is returned without
\* return_reasoning, and chain is NoChain then
Classified(label, c, return_reasoning) ==
    [label |-> label, chain |-> IF return_reasoning THEN c ELSE NoChain]

\* combined_chain with the steps of the chains given
Combined(conclusion, steps) ==
    set_conclusion([ReasoningChain("Complete Message Classification") EXCEPT !.steps = steps],
                   <<Txt(conclusion)>>, "HIGH")

\* a faulty variant of the decision: the development ticket is looked for
\* before the PII ticket
classify_from_dev_first(found, indicators, questions, return_reasoning) ==
    IF Len(indicators) >= DevTicketCount /\ questions
    THEN Classified("dev_ticket",
                    Combined("Development/Requirements Ticket",
                             analyze_pii_patterns(found).steps
                             \o analyze_dev_indicators(indicators, questions).steps),
                    return_reasoning)
    ELSE IF phi_count(found) >= PiiTicketCount
    THEN Classified("pii_ticket",
                    set_conclusion(analyze_pii_patterns(found),
                                   <<Txt("PII Support Ticket")>>, "HIGH"),
                    return_reasoning)
    ELSE Classified("question",
                    Combined("General Policy Question",
                             analyze_pii_patterns(found).steps
                             \o (IF indicators # <<>> \/ questions
                                 THEN analyze_dev_indicators(indicators, questions).steps
                                 ELSE <<>>)),
                    return_reasoning)

\* the body of the try block once the patterns, the indicators and the
\* question words have been looked for
classify_from(found, indicators, questions, return_reasoning) ==
    IF phi_count(found) >= PiiTicketCount
    THEN Classified("pii_ticket",
                    set_conclusion(analyze_pii_patterns(found),
                                   <<Txt("PII Support Ticket")>>, "HIGH"),
                    return_reasoning)
    ELSE IF Len(indicators) >= DevTicketCount /\ questions
    THEN Classified("dev_ticket",
                    Combined("Development/Requirements Ticket",
                             analyze_pii_patterns(found).steps
                             \o analyze_dev_indicators(indicators, questions).steps),
                    return_reasoning)
    ELSE Classified("question",
                    Combined("General Policy Question",
                             analyze_pii_patterns(found).steps
                             \o (IF indicators # <<>> \/ questions
                                 THEN analyze_dev_indicators(indicators, questions).steps
                                 ELSE <<>>)),
                    return_reasoning)

\* ChatBot._classify_message
_classify_message(message, return_reasoning) ==
    IF message = NotAString
    THEN \* message.strip() raises AttributeError: the except branch
         Classified("question",
                    set_conclusion(
                        add_step(ReasoningChain("Message Classification (Error)"),
                                 "Error occurred", <<Txt("{str(e)}")>>,
                                 Txt("Default to question")),
                        <<Txt("question")>>, "LOW"),
                    return_reasoning)
    ELSE IF IsBlank(message)
    THEN Classified("question",
                    set_conclusion(
                        add_step(ReasoningChain("Message Classification"),
                                 "Input validation", <<Txt("Message is empty")>>,
                                 Txt("Default to question")),
                        <<Txt("question")>>, "HIGH"),
                    return_reasoning)
    ELSE classify_from(patterns(message), found_indicators(Lower(message)),
                       has_questions(Lower(message)), return_reasoning)

---------------------------------------------------------------------------
(* ComplianceReasoning.multi_step_analysis (src/src/chain_of_thought.py).  *)
(* A passage is the tuple (text, metadata, score) the RAG system gives; the *)
(* RAG system is the sequence of what it gives to the queries made to it,   *)
(* in the order of the queries.                                            *)

\* what a call of a collaborator gives: a value, or an exception
Returns(value) == [raised |-> "none", value |-> value]

Raises(exception) == [raised |-> exception, value |-> <<>>]

\* (text, metadata, score), the source a path held as its parts
Passage(passage_text, source, score) ==
    [text |-> passage_text, metadata |-> [source |-> source], score |-> score]

\* text.strip()
strip(s) ==
    LET kept == {k \in 1..Len(s) : s[k] \notin SpaceChars}
    IN  IF kept = {} THEN <<>>
        ELSE SubSeq(s, CHOOSE k \in kept : \A j \in kept : k <= j,
                       CHOOSE k \in kept : \A j \in kept : k >= j)

NormalizedLength == 200

\* a faulty variant of the normalization: the whole text is compared
text_normalized_whole(passage_text) == Lower(strip(passage_text))

\* text.strip().lower()[:200]
text_normalized(passage_text) == Slice(Lower(strip(passage_text)), 0, NormalizedLength)

\* the loop of step 3 over the passages left of all_context
RECURSIVE unique_context(_, _, _)
unique_context(all_context, seen_texts, unique) ==
    IF all_context = <<>> THEN unique
    ELSE LET normalized == text_normalized(Head(all_context).text)
         IN  IF normalized \notin seen_texts
             THEN unique_context(Tail(all_context), seen_texts \cup {normalized},
                                 Append(unique, Head(all_context)))
             ELSE unique_context(Tail(all_context), seen_texts, unique)

\* keywords_to_explore, from the lower-cased ticket
keywords_to_explore(ticket_lower) ==
    (IF Contains(ticket_lower, <<"e", "n", "c", "r", "y", "p", "t", "i", "o", "n">>)
        \/ Contains(ticket_lower, <<"e", "n", "c", "r", "y", "p", "t">>)
     THEN <<"encryption standards">> ELSE <<>>)
    \o (IF Contains(ticket_lower, <<"c", "o", "n", "s", "e", "n", "t">>)
        THEN <<"consent requirements">> ELSE <<>>)
    \o (IF Contains(ticket_lower, <<"b", "r", "e", "a", "c", "h">>)
           \/ Contains(ticket_lower, <<"i", "n", "c", "i", "d", "e", "n", "t">>)
        THEN <<"breach notification">> ELSE <<>>)
    \o (IF Contains(ticket_lower, <<"r", "e", "t", "e", "n", "t", "i", "o", "n">>)
           \/ Contains(ticket_lower, <<"d", "e", "l", "e", "t", "e">>)
        THEN <<"data retention requirements">> ELSE <<>>)

FollowUpLimit == 2

\* all_context after one follow-up query: extended by what the query gave,
\* left alone when the query raised
after_follow_up(all_context, outcome) ==
    IF outcome.raised = "none" THEN all_context \o outcome.value ELSE all_context

\* the loop over keywords_to_explore[:2]; so_far holds all_context,
\* gap_findings and the queries made
RECURSIVE follow_up(_, _, _)
follow_up(keywords, rag_system, so_far) ==
    IF keywords = <<>> THEN so_far
    ELSE follow_up(Tail(keywords), Tail(rag_system),
            [all_context |-> after_follow_up(so_far.all_context, Head(rag_system)),
             gap_findings |->
                IF Head(rag_system).raised # "none"
                THEN Append(so_far.gap_findings,
                            Fmt("Follow-up query '{}' failed: {}", <<Head(keywords)>>, 0,
                                Head(rag_system).raised))
                ELSE IF Head(rag_system).value # <<>>
                THEN Append(so_far.gap_findings,
                            Fmt("Follow-up query '{}': {} results", <<Head(keywords)>>,
                                Len(Head(rag_system).value), ""))
                ELSE so_far.gap_findings,
             calls |-> Append(so_far.calls, "rag.query")])

\* the sources of step 1: the last part of each passage's source
step1_sources(initial_context) ==
    {initial_context[k].metadata.source[Len(initial_context[k].metadata.source)] :
        k \in 1..Len(initial_context)}

\* the chain after step 1
step1_chain(initial_context) ==
    add_step(ReasoningChain("Multi-Step Compliance Analysis"),
             "Initial broad policy search",
             <<Fmt("Retrieved {} relevant policy chunks", {}, Len(initial_context), "")>>
             \o (IF initial_context # <<>>
                 THEN <<Fmt("Sources: {}", step1_sources(initial_context), 0, "")>>
                 ELSE <<>>),
             Fmt("Found {} relevant passages", {}, Len(initial_context), ""))

\* the chain after step 2, given what the follow-up loop has left
step2_chain(c, keywords, explored) ==
    IF keywords # <<>>
    THEN add_step(c, "Identifying gaps and performing follow-up queries",
                  explored.gap_findings,
                  Fmt("Total context expanded to {} passages", {},
                      Len(explored.all_context), ""))
    ELSE add_step(c, "Checking for gaps", <<Txt("No specific follow-up topics identified")>>,
                  Txt("Initial context appears sufficient"))

\* the chain after step 3 and set_conclusion
step3_chain(c, all_context, unique) ==
    set_conclusion(
        add_step(c, "Deduplicating context",
                 <<Fmt("Total passages retrieved: {}", {}, Len(all_context), ""),
                   Fmt("Duplicates removed: {}", {}, Len(all_context) - Len(unique), ""),
                   Fmt("Unique passages: {}", {}, Len(unique), "")>>,
                 Fmt("Final context: {} unique passages", {}, Len(unique), "")),
        <<Fmt("Multi-step analysis complete with {} unique policy references", {},
              Len(unique), "")>>,
        "HIGH")

\* the chain and the context returned once the follow-up loop is over
analysis_from(initial_context, keywords, explored) ==
    Only({[chain |-> step3_chain(step2_chain(step1_chain(initial_context), keywords,
                                             explored),
                                 explored.all_context, unique),
           context |-> unique,
           calls |-> explored.calls] :
          unique \in {unique_context(explored.all_context, {}, <<>>)}})

\* ComplianceReasoning.multi_step_analysis: the chain, the context and the
\* queries made to the RAG system
multi_step_analysis(ticket_text, initial_context, rag_system) ==
    Only({analysis_from(initial_context, keywords,
                        follow_up(Slice(keywords, 0, FollowUpLimit), rag_system,
                                  [all_context |-> initial_context,
                                   gap_findings |->
                                      <<Fmt("Identified specific topics to explore: {}",
                                            keywords, 0, "")>>,
                                   calls |-> <<>>])) :
          keywords \in {keywords_to_explore(Lower(ticket_text))}})

---------------------------------------------------------------------------
(* ChatBot.chat and the three methods it routes to (src/src/chatbot.py).   *)
(* self holds the collaborators: phi_detector and llm are what their one   *)
(* call gives, rag is the sequence of what the RAG system gives to the     *)
(* queries made to it. A string is held as an f-string is, None as a chain *)
(* or a list is held as NoChain or the empty list, and the value returned  *)
(* as the sequence of its components (one component when it is no tuple).  *)

\* what a method gives: the value returned or the exception raised, and the
\* calls made to the collaborators
Result(value, made) == [raised |-> "none", value |-> value, calls |-> made]

\* if response: of an Optional[str], held as a sequence of at most one string
Truthy(response) == response # <<>> /\ response # <<Txt("")>>

\* the value returned: the tuple when return_prompt is set, else its first
\* component
Returned(tuple, return_prompt) == IF return_prompt THEN tuple ELSE <<tuple[1]>>

\* ChatBot.analyze_ticket: the except branch
analyze_ticket_error(e, return_prompt) ==
    Returned(<<Fmt("Error analyzing ticket: {}", {}, 0, e), Txt(""), <<>>, "LOW", <<>>,
               NoChain>>, return_prompt)

\* ChatBot.analyze_ticket once the detections are there
analyze_ticket_from(detections, self, return_prompt, use_cot) ==
    LET risk == _assess_risk_level(detections)
        reasoning == IF use_cot
                     THEN assess_risk(detections, critical_types, assess_high_risk_types,
                                      medium_risk_types)
                     ELSE NoChain
        chunks == IF Head(self.rag).raised = "none" THEN Head(self.rag).value ELSE <<>>
        full_prompt == IF use_cot
                       THEN Fmt("build_cot_detection_prompt", DetectedTypes(detections),
                                Len(chunks), risk)
                       ELSE IF chunks # <<>>
                       THEN Fmt("You are a privacy compliance advisor. Analyze this support ticket",
                                DetectedTypes(detections), Len(chunks), risk)
                       ELSE Fmt("_build_detection_prompt", DetectedTypes(detections), 0, risk)
        made == <<"phi_detector.analyze", "rag.query", "llm.generate">>
    IN  IF self.llm.raised # "none"
        THEN Result(analyze_ticket_error(self.llm.raised, return_prompt), made)
        ELSE Result(Returned(<<IF Truthy(self.llm.value)
                               THEN self.llm.value[1]
                               ELSE Fmt("_format_basic_detection", DetectedTypes(detections),
                                        Len(detections), risk),
                               full_prompt, detections, risk, chunks, reasoning>>,
                             return_prompt),
                    made)

\* ChatBot.analyze_ticket
analyze_ticket(message, self, return_prompt, use_cot) ==
    IF self.phi_detector.raised # "none"
    THEN Result(analyze_ticket_error(self.phi_detector.raised, return_prompt),
                <<"phi_detector.analyze">>)
    ELSE analyze_ticket_from(self.phi_detector.value.detections, self, return_prompt, use_cot)

\* ChatBot.answer_dev_ticket: the two except branches
answer_dev_ticket_error(e, return_prompt) ==
    Returned(<<IF e = "ValueError"
               THEN Txt("The policy knowledge base is not yet loaded. Please load policy documents before processing development tickets.")
               ELSE Fmt("Error processing development ticket: {}", {}, 0, e),
               Txt(""), <<>>, NoChain>>, return_prompt)

\* ChatBot.answer_dev_ticket once the context is there: analysis holds
\* rag_reasoning, context_chunks and the follow-up queries made
answer_dev_ticket_from(analysis, self, return_prompt, use_cot) ==
    LET full_prompt == IF use_cot
                       THEN Fmt("build_cot_dev_ticket_prompt", {}, Len(analysis.context), "")
                       ELSE Fmt("You are a privacy compliance advisor helping development teams.",
                                {}, Len(analysis.context), "")
        made == <<"rag.query">> \o analysis.calls \o <<"llm.generate">>
    IN  IF self.llm.raised # "none"
        THEN Result(answer_dev_ticket_error(self.llm.raised, return_prompt), made)
        ELSE Result(Returned(<<IF Truthy(self.llm.value)
                               THEN self.llm.value[1]
                               ELSE Fmt("_format_basic_answer", {}, Len(analysis.context), ""),
                               full_prompt, analysis.context, analysis.chain>>,
                             return_prompt),
                    made)

\* ChatBot.answer_dev_ticket
answer_dev_ticket(ticket_text, self, return_prompt, use_cot) ==
    IF Head(self.rag).raised # "none"
    THEN Result(answer_dev_ticket_error(Head(self.rag).raised, return_prompt), <<"rag.query">>)
    ELSE IF Head(self.rag).value = <<>>
    THEN Result(Returned(<<Txt("I don't have enough policy information to provide guidance. Please ensure policy documents have been loaded into the system."),
                           Txt(""), <<>>, NoChain>>, return_prompt),
                <<"rag.query">>)
    ELSE Only({answer_dev_ticket_from(analysis, self, return_prompt, use_cot) :
               analysis \in {IF use_cot
                             THEN multi_step_analysis(ticket_text, Head(self.rag).value,
                                                      Tail(self.rag))
                             ELSE [chain |-> NoChain, context |-> Head(self.rag).value,
                                   calls |-> <<>>]}})

\* ChatBot.answer_question: the two except branches
answer_question_error(e, return_prompt) ==
    Returned(<<IF e = "ValueError"
               THEN Txt("The policy knowledge base is not yet loaded. Please load policy documents before asking questions.")
               ELSE Fmt("Error processing question: {}", {}, 0, e),
               Txt(""), <<>>>>, return_prompt)

\* ChatBot.answer_question
answer_question(question, self, return_prompt, use_cot) ==
    IF Head(self.rag).raised # "none"
    THEN Result(answer_question_error(Head(self.rag).raised, return_prompt), <<"rag.query">>)
    ELSE IF Head(self.rag).value = <<>>
    THEN Result(Returned(<<Txt("I don't have enough policy information to answer that question. Please ensure policy documents have been loaded into the system."),
                           Txt(""), <<>>>>, return_prompt),
                <<"rag.query">>)
    ELSE IF self.llm.raised # "none"
    THEN Result(answer_question_error(self.llm.raised, return_prompt),
                <<"rag.query", "llm.generate">>)
    ELSE Result(Returned(<<IF Truthy(self.llm.value)
                           THEN self.llm.value[1]
                           ELSE Fmt("_format_basic_answer", {}, Len(Head(self.rag).value), ""),
                           IF use_cot
                           THEN Fmt("build_cot_policy_question_prompt", {},
                                    Len(Head(self.rag).value), "")
                           ELSE Fmt("_build_policy_prompt", {}, Len(Head(self.rag).value), ""),
                           Head(self.rag).value>>, return_prompt),
                <<"rag.query", "llm.generate">>)

\* a faulty variant of the except branch of chat: the exception is raised
\* again
on_chat_error_raised(e, return_prompt, made) ==
    [raised |-> e, value |-> <<>>, calls |-> made]

\* ChatBot.chat: the except branch
on_chat_error(e, return_prompt, made) ==
    Result(Returned(<<Fmt("An error occurred: {}", {}, 0, e), Txt(""), <<>>, "question">>,
                    return_prompt),
           made)

\* the method chat routes a message of the given type to
routed(label, message, self, return_prompt, use_cot) ==
    CASE label = "pii_ticket" -> analyze_ticket(message, self, return_prompt, use_cot)
      [] label = "dev_ticket" -> answer_dev_ticket(message, self, return_prompt, use_cot)
      [] OTHER -> answer_question(message, self, return_prompt, use_cot)

\* the number of components chat unpacks the value of the method into
unpacked(label) ==
    CASE label = "pii_ticket" -> 6
      [] label = "dev_ticket" -> 4
      [] OTHER -> 3

\* the metadata chat builds from the components v
metadata_of(label, v, classification_reasoning) ==
    CASE label = "pii_ticket" ->
            [detections |-> v[3], risk_level |-> v[4], context_chunks |-> v[5],
             classification_reasoning |-> classification_reasoning,
             risk_reasoning |-> v[6]]
      [] label = "dev_ticket" ->
            [context_chunks |-> v[3], ticket_type |-> "development",
             classification_reasoning |-> classification_reasoning,
             rag_reasoning |-> v[4]]
      [] OTHER ->
            [context_chunks |-> v[3],
             classification_reasoning |-> classification_reasoning]

\* chat once the message is classified and the method it is routed to has
\* ended
chat_from(classified, handled, return_prompt) ==
    IF handled.raised # "none"
    THEN on_chat_error(handled.raised, return_prompt, handled.calls)
    ELSE IF ~return_prompt
    THEN handled
    ELSE IF Len(handled.value) # unpacked(classified.label)
    THEN on_chat_error("ValueError", return_prompt, handled.calls)
    ELSE Result(<<handled.value[1], handled.value[2],
                  metadata_of(classified.label, handled.value, classified.chain),
                  classified.label>>,
                handled.calls)

\* ChatBot.chat
chat(message, self, return_prompt, use_cot) ==
    IF message = NotAString
    THEN on_chat_error("AttributeError", return_prompt, <<>>)
    ELSE IF IsBlank(message)
    THEN Result(Returned(<<Txt("Please provide a message or question."), Txt(""), <<>>,
                           "question">>, return_prompt),
                <<>>)
    ELSE Only({Only({chat_from(classified, handled, return_prompt) :
                     handled \in {routed(classified.label, message, self, return_prompt,
                                         use_cot)}}) :
               classified \in {_classify_message(message, use_cot /\ return_prompt)}})

---------------------------------------------------------------------------
(* Spec: a caller constructs a PHIDetector and calls analyze on a text     *)

Init ==
    /\ pc = "new"
    /\ nlp = "none"
    /\ text = <<>>
    /\ pattern_results = <<>>
    /\ ner_results = <<>>
    /\ merged_detections = <<>>
    /\ risk_level = ""
    /\ redacted_text = <<>>
    /\ has_phi = FALSE
    /\ raised = "none"
    /\ LayerDefaults

\* PHIDetector.__init__: Patterns() compiles the patterns, NERDetector()
\* loads the spaCy model
ConstructLoaded ==
    /\ pc = "new"
    /\ nlp' = "loaded"
    /\ pc' = "idle"
    /\ UNCHANGED <<text, pattern_results, ner_results, merged_detections,
                   risk_level, redacted_text, has_phi, raised>>
    /\ UNCHANGED layer_vars

\* spacy.load raises OSError, NERDetector.__init__ raises it again and
\* PHIDetector.__init__ lets it through: there is no detector
ConstructModelMissing ==
    /\ pc = "new"
    /\ nlp' = "missing"
    /\ pc' = "construct_raised"
    /\ raised' = "OSError"
    /\ UNCHANGED <<text, pattern_results, ner_results, merged_detections,
                   risk_level, redacted_text, has_phi>>
    /\ UNCHANGED layer_vars

\* analyze(None): self.sin_pattern.finditer(None), the first call detect_all
\* makes on the text, raises TypeError
AnalyzeNoneRaise ==
    /\ pc = "idle"
    /\ text' = NoneText
    /\ pc' = "raised"
    /\ raised' = "TypeError"
    /\ SetLocals(NoResult)
    /\ UNCHANGED nlp
    /\ UNCHANGED layer_vars

\* analyze(text), detect_all raising
AnalyzePatternsRaise ==
    /\ pc = "idle"
    /\ \E toks \in TokenSeqs : \E t \in {TextOf(toks)} :
         /\ detect_all_raises(t)
         /\ text' = t
         /\ pc' = "raised"
         /\ raised' = "ValueError"
         /\ SetLocals(NoResult)
    /\ UNCHANGED nlp
    /\ UNCHANGED layer_vars

\* analyze(text), self.nlp(text) raising in detect_entities
AnalyzeNlpRaise ==
    /\ pc = "idle"
    /\ \E toks \in TokenSeqs : \E t \in {TextOf(toks)} :
         /\ ~detect_all_raises(t)
         /\ \E out \in NlpOutcomes(toks) :
              /\ out.raises
              /\ text' = t
              /\ pc' = "raised"
              /\ raised' = "NlpError"
              /\ SetLocals([NoResult EXCEPT !.pattern_results = detect_all(t)])
    /\ UNCHANGED nlp
    /\ UNCHANGED layer_vars

\* analyze(text) returning its dictionary
AnalyzeReturn ==
    /\ pc = "idle"
    /\ \E toks \in TokenSeqs : \E t \in {TextOf(toks)} :
         /\ ~detect_all_raises(t)
         /\ \E pattern_res \in {detect_all(t)} : \E out \in NlpOutcomes(toks) :
              /\ ~out.raises
              /\ text' = t
              /\ pc' = "returned"
              /\ \E r \in {AnalyzeResult(t, pattern_res, detect_entities(out.ents))} :
                   SetLocals(r)
    /\ UNCHANGED <<nlp, raised>>
    /\ UNCHANGED layer_vars

Next ==
    \/ ConstructLoaded
    \/ ConstructModelMissing
    \/ AnalyzeNoneRaise
    \/ AnalyzePatternsRaise
    \/ AnalyzeNlpRaise
    \/ AnalyzeReturn

Spec == Init /\ [][Next]_vars

---------------------------------------------------------------------------
(* SpecUnit: a caller of one method with arguments it has built itself, as *)
(* the tests of tests/test_phi_detector.py and tests/test_patterns.py are. *)
(* Init draws the arguments, the one step is the call.                     *)

\* the first n lower-case letters: a text whose characters all differ
UnitText(n) == SubSeq(LowerChars, 1, n)

\* the spans [start, end) with 0 <= start < end <= n
Spans(n) == {p \in (0..n) \X (0..n) : p[1] < p[2]}

SeqsOfLen(S, n) == {s \in SeqsUpTo(S, n) : Len(s) = n}

\* grammar detections over UnitText(MaxPos), of two types and confidences
PatternItems ==
    {Det("Personal Health Number (PHN)", Slice(UnitText(MaxPos), p[1], p[2]), p[1], p[2],
         50, "Health plan beneficiary number") : p \in Spans(MaxPos)}
    \cup {Det("Email Address", Slice(UnitText(MaxPos), p[1], p[2]), p[1], p[2],
              95, "Email address") : p \in Spans(MaxPos)}

\* entity detections over UnitText(MaxPos)
NerItems ==
    {Det("NAME", Slice(UnitText(MaxPos), p[1], p[2]), p[1], p[2], 85, "#1 - Names") :
        p \in Spans(MaxPos)}

\* the types of the lists given to _calculate_risk
RiskTypes ==
    {"Social Insurance Number (SIN)", "Credit Card Number", "Personal Health Number (PHN)",
     "SSN", "CreditCard", "Email Address", "Phone Number", "NAME"}

\* a list of detections of the given types, one character each
RiskList(types) ==
    [k \in 1..Len(types) |-> Det(types[k], <<"x">>, k - 1, k, 85, "")]

\* detections inside UnitText(n), of three types
RedactItems(n) ==
    {Det(ty, Slice(UnitText(n), p[1], p[2]), p[1], p[2], 85, "") :
        ty \in {"Email Address", "NAME", "Social Insurance Number (SIN)"}, p \in Spans(n)}

\* no two detections of the list have intersecting spans
PairwiseDisjoint(s) ==
    \A i, j \in 1..Len(s) : i < j => (s[i].end <= s[j].start \/ s[j].end <= s[i].start)

UnitDefaults ==
    /\ nlp = "none"
    /\ raised = "none"
    /\ risk_level = ""
    /\ redacted_text = <<>>
    /\ has_phi = FALSE
    /\ LayerDefaults

\* arguments of _merge_detections: lists in any order, overlapping or not
InitMerge ==
    /\ pc = "merge_call"
    /\ text = <<>>
    /\ \E k \in 0..MaxItems :
         /\ pattern_results \in SeqsOfLen(PatternItems, k)
         /\ ner_results \in SeqsUpTo(NerItems, MaxItems - k)
    /\ merged_detections = <<>>
    /\ UnitDefaults

\* argument of _calculate_risk
InitRisk ==
    /\ pc = "risk_call"
    /\ text = <<>>
    /\ pattern_results = <<>>
    /\ ner_results = <<>>
    /\ merged_detections \in {RiskList(types) : types \in SeqsUpTo(RiskTypes, MaxItems)}
    /\ UnitDefaults

\* arguments of _redact_text: a text and detections inside it, in any order,
\* no two of them overlapping
InitRedact ==
    /\ pc = "redact_call"
    /\ \E n \in 0..MaxPos :
         /\ text = UnitText(n)
         /\ merged_detections \in
              {s \in SeqsUpTo(RedactItems(n), MaxItems) : PairwiseDisjoint(s)}
    /\ pattern_results = <<>>
    /\ ner_results = <<>>
    /\ UnitDefaults

\* argument of detect_all
InitDetectAll ==
    /\ pc = "detect_all_call"
    /\ text \in {TextOf(toks) : toks \in TokenSeqs}
    /\ pattern_results = <<>>
    /\ ner_results = <<>>
    /\ merged_detections = <<>>
    /\ UnitDefaults

\* the arguments of detect_credit_card: card numbers in four groups, those of
\* tests/test_patterns.py among them, with or without a separator between
\* the groups
CardGroups ==
    {<<<<"4", "5", "3", "2">>, <<"0", "1", "5", "1">>, <<"1", "2", "8", "3">>, <<"0", "3", "6", "6">>>>,
     <<<<"0", "0", "0", "0">>, <<"0", "0", "0", "0">>, <<"0", "0", "0", "0">>, <<"0", "0", "0", "0">>>>,
     <<<<"1", "2", "3", "4">>, <<"5", "6", "7", "8">>, <<"9", "0", "1", "2">>, <<"3", "4", "5", "6">>>>,
     <<<<"1", "1", "1", "1">>, <<"1", "1", "1", "1">>, <<"1", "1", "1", "1">>, <<"1", "1", "1", "1">>>>,
     <<<<"5", "4", "2", "5">>, <<"2", "3", "3", "4">>, <<"3", "0", "1", "0">>, <<"9", "9", "0", "3">>>>,
     <<<<"4", "5", "3", "2">>, <<"0", "1", "5", "1">>, <<"1", "2", "8", "3">>, <<"0", "3", "6", "7">>>>}

CardSeparators == {<<>>, <<"-">>, <<" ">>, <<"\n">>}

CardTexts ==
    {g[1] \o a \o g[2] \o b \o g[3] \o c \o g[4] :
        g \in CardGroups, a \in CardSeparators, b \in CardSeparators, c \in CardSeparators}

InitCreditCard ==
    /\ pc = "credit_card_call"
    /\ text \in CardTexts
    /\ pattern_results = <<>>
    /\ ner_results = <<>>
    /\ merged_detections = <<>>
    /\ UnitDefaults

\* the arguments of detect_sin: three groups of three digits, with or without
\* a separator between them
SinGroups == {<<"1", "1", "1">>, <<"1", "2", "3">>}

SinSeparators == {<<>>, <<"-">>, <<" ">>, <<"\n">>, <<"\t">>}

SinTexts ==
    {g1 \o a \o g2 \o b \o g3 :
        g1 \in SinGroups, g2 \in SinGroups, g3 \in SinGroups,
        a \in SinSeparators, b \in SinSeparators}

InitSin ==
    /\ pc = "sin_call"
    /\ text \in SinTexts
    /\ pattern_results = <<>>
    /\ ner_results = <<>>
    /\ merged_detections = <<>>
    /\ UnitDefaults

\* the arguments of detect_phn: ten digits with a text before and after them
PhnBefore ==
    {<<>>,
     <<"p", "h", "n", " ">>,
     <<"P", "H", "N", ":", " ">>,
     <<"H", "e", "a", "l", "t", "h", " ", "N", "u", "m", "b", "e", "r", " ">>,
     <<"c", "a", "r", "e", " ", "c", "a", "r", "d", " ">>,
     <<"b", "c", " ", "h", "e", "a", "l", "t", "h", " ">>,
     <<"h", "e", "a", "l", "t", "h", " ">>,
     <<"H", "e", "a", "l", "t", "h", ":", " ">>,
     <<"n", "u", "m", "b", "e", "r", " ">>,
     <<"p", "h", "n", " ", " ", " ", " ", " ", " ", " ", " ", " ", " ", " ", " ", " ", " ", " ", " ", " ">>,
     <<"p", "h", "n", " ", " ", " ", " ", " ", " ", " ", " ", " ", " ", " ", " ", " ", " ", " ", " ", " ", " ">>}

PhnAfter ==
    {<<>>,
     <<" ", "p", "h", "n">>,
     <<" ", " ", " ", " ", " ", " ", " ", " ", " ", " ", " ", " ", " ", " ", " ", " ", " ", "p", "h", "n">>,
     <<" ", " ", " ", " ", " ", " ", " ", " ", " ", " ", " ", " ", " ", " ", " ", " ", " ", " ", "p", "h", "n">>}

PhnTexts ==
    {b \o <<"1", "2", "3", "4", "5", "6", "7", "8", "9", "0">> \o a :
        b \in PhnBefore, a \in PhnAfter}

InitPhn ==
    /\ pc = "phn_call"
    /\ text \in PhnTexts
    /\ pattern_results = <<>>
    /\ ner_results = <<>>
    /\ merged_detections = <<>>
    /\ UnitDefaults

\* str(n) for n >= 0
RECURSIVE DecimalOf(_)
DecimalOf(n) ==
    IF n < 10 THEN <<DigitChars[n + 1]>>
    ELSE DecimalOf(n \div 10) \o <<DigitChars[(n % 10) + 1]>>

\* the arguments of detect_ip: four numbers with dots between them
IpOctets == {0, 30, 255, 256, 999}

IpText(o) ==
    DecimalOf(o[1]) \o <<".">> \o DecimalOf(o[2]) \o <<".">>
    \o DecimalOf(o[3]) \o <<".">> \o DecimalOf(o[4])

InitIp ==
    /\ pc = "ip_call"
    /\ text \in {IpText(o) : o \in IpOctets \X IpOctets \X IpOctets \X IpOctets}
    /\ pattern_results = <<>>
    /\ ner_results = <<>>
    /\ merged_detections = <<>>
    /\ UnitDefaults

\* the types of the lists given to _assess_risk_level: of the critical set,
\* of the high-risk set, of the medium-risk set and of none of the three
AssessTypes ==
    {"Social Insurance Number (SIN)", "Personal Health Number (PHN)", "Credit Card Number",
     "SSN", "DATE_OF_BIRTH", "Email Address", "Phone Number", "Date", "LOCATION",
     "CreditCard"}

MaxPad == 3

\* the list followed by n more detections of the type of its last one
Padded(types, n) == types \o [k \in 1..n |-> types[Len(types)]]

\* argument of _assess_risk_level: up to MaxItems + MaxPad detections
InitAssess ==
    /\ pc = "assess_call"
    /\ text = <<>>
    /\ pattern_results = <<>>
    /\ ner_results = <<>>
    /\ \E types \in SeqsUpTo(AssessTypes, MaxItems) : \E n \in 0..MaxPad :
         /\ types = <<>> => n = 0
         /\ merged_detections = RiskList(Padded(types, n))
    /\ UnitDefaults

\* the pieces of the messages given to _classify_message: an e-mail address,
\* a phone number, a number of the SSN form, an account number, a date of
\* birth, a word with two development keywords and one with one, a question
\* word and a space
MsgTokens ==
    <<<<"a", "@", "b", ".", "c", "o", " ">>,
      <<"6", "0", "4", "-", "5", "5", "5", "-", "1", "2", "3", "4", " ">>,
      <<"1", "2", "3", "-", "4", "5", "-", "6", "7", "8", "9", " ">>,
      <<"a", "c", "c", "t", " ", "1", "2", "3", "4", "5", " ">>,
      <<"D", "O", "B", ":", " ", "1", "/", "2", "/", "9", "9", " ">>,
      <<"e", "n", "c", "r", "y", "p", "t", "i", "o", "n", " ">>,
      <<"d", "a", "t", "a", "b", "a", "s", "e", " ">>,
      <<"H", "o", "w", " ">>,
      <<" ">>>>

MaxMsgTokens == 3

RECURSIVE MsgOf(_)
MsgOf(toks) == IF toks = <<>> THEN <<>> ELSE MsgTokens[Head(toks)] \o MsgOf(Tail(toks))

Messages ==
    {MsgOf(toks) : toks \in SeqsUpTo(1..Len(MsgTokens), MaxMsgTokens)}
    \cup {NoneText, NotAString}

\* argument of _classify_message
InitClassify ==
    /\ pc = "classify_call"
    /\ text \in Messages
    /\ pattern_results = <<>>
    /\ ner_results = <<>>
    /\ merged_detections = <<>>
    /\ UnitDefaults

InitUnit ==
    \/ InitMerge
    \/ InitRisk
    \/ InitRedact
    \/ InitDetectAll
    \/ InitCreditCard
    \/ InitSin
    \/ InitPhn
    \/ InitIp
    \/ InitAssess
    \/ InitClassify

CallMerge ==
    /\ pc = "merge_call"
    /\ \E objects \in {merge_objects([pattern_results |-> pattern_results,
                                       ner_results |-> ner_results,
                                       merged |-> <<>>])} :
         /\ merged_detections' = objects[MergedObject("pattern_results")]
         /\ pattern_results' = objects.pattern_results
         /\ ner_results' = objects.ner_results
    /\ pc' = "merge_done"
    /\ UNCHANGED <<nlp, text, risk_level, redacted_text, has_phi, raised>>
    /\ UNCHANGED layer_vars

CallCalculateRisk ==
    /\ pc = "risk_call"
    /\ risk_level' = _calculate_risk(merged_detections)
    /\ pc' = "risk_done"
    /\ UNCHANGED <<nlp, text, pattern_results, ner_results, merged_detections,
                   redacted_text, has_phi, raised>>
    /\ UNCHANGED layer_vars

CallRedactText ==
    /\ pc = "redact_call"
    /\ redacted_text' = _redact_text(text, merged_detections)
    /\ merged_detections' = redact_objects([detections |-> merged_detections,
                                            sorted_detections |-> <<>>]).detections
    /\ pc' = "redact_done"
    /\ UNCHANGED <<nlp, text, pattern_results, ner_results, risk_level, has_phi, raised>>
    /\ UNCHANGED layer_vars

\* _redact_text called on the text the first call returned, with no detection
CallRedactTextAgain ==
    /\ pc = "redact_done"
    /\ redacted_text' = _redact_text(redacted_text, <<>>)
    /\ pc' = "redact_again_done"
    /\ UNCHANGED <<nlp, text, pattern_results, ner_results, merged_detections,
                   risk_level, has_phi, raised>>
    /\ UNCHANGED layer_vars

CallDetectAll ==
    /\ pc = "detect_all_call"
    /\ IF detect_all_raises(text)
       THEN /\ pc' = "raised"
            /\ raised' = "ValueError"
            /\ UNCHANGED pattern_results
       ELSE /\ pc' = "detect_all_done"
            /\ pattern_results' = detect_all(text)
            /\ UNCHANGED raised
    /\ UNCHANGED <<nlp, text, ner_results, merged_detections, risk_level, redacted_text,
                   has_phi>>
    /\ UNCHANGED layer_vars

CallDetectCreditCard ==
    /\ pc = "credit_card_call"
    /\ IF detect_credit_card_raises(text)
       THEN /\ pc' = "raised"
            /\ raised' = "ValueError"
            /\ UNCHANGED pattern_results
       ELSE /\ pc' = "credit_card_done"
            /\ pattern_results' = detect_credit_card(text)
            /\ UNCHANGED raised
    /\ UNCHANGED <<nlp, text, ner_results, merged_detections, risk_level, redacted_text,
                   has_phi>>
    /\ UNCHANGED layer_vars

CallDetectSin ==
    /\ pc = "sin_call"
    /\ pattern_results' = detect_sin(text)
    /\ pc' = "sin_done"
    /\ UNCHANGED <<nlp, text, ner_results, merged_detections, risk_level, redacted_text,
                   has_phi, raised>>
    /\ UNCHANGED layer_vars

CallDetectPhn ==
    /\ pc = "phn_call"
    /\ pattern_results' = detect_phn(text)
    /\ pc' = "phn_done"
    /\ UNCHANGED <<nlp, text, ner_results, merged_detections, risk_level, redacted_text,
                   has_phi, raised>>
    /\ UNCHANGED layer_vars

CallDetectIp ==
    /\ pc = "ip_call"
    /\ pattern_results' = detect_ip(text)
    /\ pc' = "ip_done"
    /\ UNCHANGED <<nlp, text, ner_results, merged_detections, risk_level, redacted_text,
                   has_phi, raised>>
    /\ UNCHANGED layer_vars

\* _assess_risk_level(detections, return_reasoning=True): the chain is built
\* whether it is returned or not
CallAssessRiskLevel ==
    /\ pc = "assess_call"
    /\ chain' = assess_risk(merged_detections, critical_types, assess_high_risk_types,
                            medium_risk_types)
    /\ risk_level' = _assess_risk_level(merged_detections)
    /\ pc' = "assess_done"
    /\ UNCHANGED <<nlp, text, pattern_results, ner_results, merged_detections,
                   redacted_text, has_phi, raised>>
    /\ UNCHANGED <<callers, frames, msg_type, chat_vars>>

\* _classify_message(message, return_reasoning)
CallClassifyMessage ==
    /\ pc = "classify_call"
    /\ \E return_reasoning \in BOOLEAN :
         \E r \in {_classify_message(text, return_reasoning)} :
            /\ msg_type' = r.label
            /\ chain' = r.chain
            /\ pc' = IF return_reasoning THEN "classify_reasoning_done" ELSE "classify_done"
    /\ UNCHANGED <<nlp, text, pattern_results, ner_results, merged_detections, risk_level,
                   redacted_text, has_phi, raised>>
    /\ UNCHANGED <<callers, frames, chat_vars>>

NextUnit ==
    \/ CallMerge
    \/ CallCalculateRisk
    \/ CallRedactText
    \/ CallRedactTextAgain
    \/ CallDetectAll
    \/ CallDetectCreditCard
    \/ CallDetectSin
    \/ CallDetectPhn
    \/ CallDetectIp
    \/ CallAssessRiskLevel
    \/ CallClassifyMessage

SpecUnit == InitUnit /\ [][NextUnit]_vars

---------------------------------------------------------------------------
(* SpecCalls: two callers share one PHIDetector and call analyze, each up  *)
(* to MaxCalls times; their threads interleave between the statements of   *)
(* analyze. The recognizer's output for a call is part of the call's input *)

Callers == {1, 2}

MaxCalls == 2

MaxCallTokens == 1

\* the tokens of the callers' texts: the SIN and the name
CallTokens == {4, 5}

\* a text and what self.nlp does for it
CallInputs ==
    UNION {{[text |-> TextOf(toks), out |-> out] : out \in NlpOutcomes(toks)} :
           toks \in {ts \in TokenSeqs :
                        /\ Len(ts) <= MaxCallTokens
                        /\ \A k \in 1..Len(ts) : ts[k] \in CallTokens}}

NoInput == [text |-> <<>>, out |-> [raises |-> FALSE, ents |-> <<>>]]

\* the dictionary analyze returns; NoReturn before it has returned
NoReturn == [has_phi |-> FALSE, risk_level |-> "", detections |-> <<>>, redacted_text |-> <<>>]

\* the parameter and the local variables of one invocation of analyze
EmptyFrame ==
    [text |-> <<>>, pattern_results |-> <<>>, ner_results |-> <<>>,
     merged_detections |-> <<>>, risk_level |-> "", redacted_text |-> <<>>]

\* faulty: the intermediate results are kept in one place for all callers
LocalsShared(c) == 1

\* where the names text, pattern_results, ner_results, merged_detections,
\* risk_level and redacted_text of caller c's invocation live: they are
\* local variables, each invocation has its own
Locals(c) == c

InitCalls ==
    /\ pc = "idle"
    /\ nlp = "loaded"
    /\ text = <<>>
    /\ pattern_results = <<>>
    /\ ner_results = <<>>
    /\ merged_detections = <<>>
    /\ risk_level = ""
    /\ redacted_text = <<>>
    /\ has_phi = FALSE
    /\ raised = "none"
    /\ callers = [c \in Callers |->
                    [pc |-> "idle", input |-> NoInput, calls |-> 0,
                     result |-> NoReturn, raised |-> "none"]]
    /\ frames = [c \in Callers |-> EmptyFrame]
    /\ chain = NoChain
    /\ msg_type = ""
    /\ ChatDefaults

\* caller c calls analyze(text)
CallAnalyze ==
    \E c \in Callers : \E input \in CallInputs :
        /\ callers[c].pc \in {"idle", "returned", "raised"}
        /\ callers[c].calls < MaxCalls
        /\ callers' = [callers EXCEPT ![c] =
                         [pc |-> "detect_all", input |-> input, calls |-> @.calls + 1,
                          result |-> NoReturn, raised |-> "none"]]
        /\ frames' = [frames EXCEPT ![Locals(c)] = [EmptyFrame EXCEPT !.text = input.text]]
        /\ UNCHANGED <<analyze_vars, chain, msg_type, chat_vars>>

\* pattern_results = self.patterns.detect_all(text)
StepDetectAll ==
    \E c \in Callers : \E f \in {frames[Locals(c)]} :
        /\ callers[c].pc = "detect_all"
        /\ IF detect_all_raises(f.text)
           THEN /\ callers' = [callers EXCEPT ![c].pc = "raised", ![c].raised = "ValueError"]
                /\ UNCHANGED frames
           ELSE /\ callers' = [callers EXCEPT ![c].pc = "detect_entities"]
                /\ frames' = [frames EXCEPT ![Locals(c)].pattern_results = detect_all(f.text)]
        /\ UNCHANGED <<analyze_vars, chain, msg_type, chat_vars>>

\* ner_results = self.ner_detector.detect_entities(text)
StepDetectEntities ==
    \E c \in Callers :
        /\ callers[c].pc = "detect_entities"
        /\ IF callers[c].input.out.raises
           THEN /\ callers' = [callers EXCEPT ![c].pc = "raised", ![c].raised = "NlpError"]
                /\ UNCHANGED frames
           ELSE /\ callers' = [callers EXCEPT ![c].pc = "merge"]
                /\ frames' = [frames EXCEPT ![Locals(c)].ner_results =
                                detect_entities(callers[c].input.out.ents)]
        /\ UNCHANGED <<analyze_vars, chain, msg_type, chat_vars>>

\* merged_detections = self._merge_detections(pattern_results, ner_results)
StepMerge ==
    \E c \in Callers : \E f \in {frames[Locals(c)]} :
        /\ callers[c].pc = "merge"
        /\ callers' = [callers EXCEPT ![c].pc = "risk"]
        /\ frames' = [frames EXCEPT ![Locals(c)].merged_detections =
                        _merge_detections(f.pattern_results, f.ner_results)]
        /\ UNCHANGED <<analyze_vars, chain, msg_type, chat_vars>>

\* risk_level = self._calculate_risk(merged_detections)
StepRisk ==
    \E c \in Callers : \E f \in {frames[Locals(c)]} :
        /\ callers[c].pc = "risk"
        /\ callers' = [callers EXCEPT ![c].pc = "redact"]
        /\ frames' = [frames EXCEPT ![Locals(c)].risk_level = _calculate_risk(f.merged_detections)]
        /\ UNCHANGED <<analyze_vars, chain, msg_type, chat_vars>>

\* redacted_text = self._redact_text(text, merged_detections)
StepRedact ==
    \E c \in Callers : \E f \in {frames[Locals(c)]} :
        /\ callers[c].pc = "redact"
        /\ callers' = [callers EXCEPT ![c].pc = "return"]
        /\ frames' = [frames EXCEPT ![Locals(c)].redacted_text =
                        _redact_text(f.text, f.merged_detections)]
        /\ UNCHANGED <<analyze_vars, chain, msg_type, chat_vars>>

\* return {'has_phi': ..., 'risk_level': ..., 'detections': ..., 'redacted_text': ...}
StepReturn ==
    \E c \in Callers : \E f \in {frames[Locals(c)]} :
        /\ callers[c].pc = "return"
        /\ callers' = [callers EXCEPT ![c].pc = "returned",
                                      ![c].result =
                                          [has_phi |-> HasPhi(f.merged_detections),
                                           risk_level |-> f.risk_level,
                                           detections |-> f.merged_detections,
                                           redacted_text |-> f.redacted_text]]
        /\ UNCHANGED frames
        /\ UNCHANGED <<analyze_vars, chain, msg_type, chat_vars>>

NextCalls ==
    \/ CallAnalyze
    \/ StepDetectAll
    \/ StepDetectEntities
    \/ StepMerge
    \/ StepRisk
    \/ StepRedact
    \/ StepReturn

SpecCalls == InitCalls /\ [][NextCalls]_vars

---------------------------------------------------------------------------
(* SpecAnalysis and SpecChat: a caller of multi_step_analysis and a caller *)
(* of ChatBot.chat, with collaborators that give passages, give nothing,   *)
(* or raise. Init draws the argument and what the collaborators will give, *)
(* the one step is the call.                                               *)

\* a text longer than the normalized length by its last character
LongText(first, last) ==
    [k \in 1..(NormalizedLength + 1) |->
        IF k = 1 THEN first ELSE IF k <= NormalizedLength THEN "p" ELSE last]

\* the texts of the passages: two that differ by case and outer blanks, one
\* alone, and two that differ by case and after the normalized length
PassageTexts ==
    {<<"A">>, <<" ", "a", " ">>, <<"b">>, LongText("p", "x"), LongText("P", "y")}

Passages == {Passage(t, <<"docs", "policy.md">>, 9) : t \in PassageTexts}

MaxContext == 2

\* what the RAG system gives to a follow-up query
FollowUpOutcomes ==
    {Raises("Exception"), Returns(<<>>),
     Returns(<<Passage(<<" ", "a", " ">>, <<"docs", "policy.md">>, 9)>>),
     Returns(<<Passage(LongText("P", "y"), <<"docs", "policy.md">>, 9)>>),
     Returns(<<Passage(<<"b">>, <<"docs", "policy.md">>, 9),
               Passage(LongText("p", "x"), <<"docs", "policy.md">>, 9)>>)}

\* the tickets given to multi_step_analysis: with none, one, two and three
\* of the topics it looks for
Tickets ==
    {<<"s", "t", "o", "r", "e", " ", "t", "h", "e", " ", "d", "a", "t", "a">>,
     <<"E", "n", "c", "r", "y", "p", "t", " ", "i", "t">>,
     <<"c", "o", "n", "s", "e", "n", "t", " ", "b", "r", "e", "a", "c", "h">>,
     <<"e", "n", "c", "r", "y", "p", "t", "i", "o", "n", " ", "c", "o", "n", "s", "e", "n", "t", " ", "d", "e", "l", "e", "t", "e">>}

\* nothing of the PHI pipeline and no chain
ChatLayerDefaults ==
    /\ nlp = "none"
    /\ raised = "none"
    /\ pattern_results = <<>>
    /\ ner_results = <<>>
    /\ merged_detections = <<>>
    /\ risk_level = ""
    /\ redacted_text = <<>>
    /\ has_phi = FALSE
    /\ callers = <<>>
    /\ frames = <<>>
    /\ chain = NoChain
    /\ msg_type = ""
    /\ calls = <<>>
    /\ returned = <<>>

\* arguments of multi_step_analysis: the ticket, the initial context and
\* the RAG system
InitMultiStep ==
    /\ pc = "multi_step_call"
    /\ text \in Tickets
    /\ context_chunks \in SeqsUpTo(Passages, MaxContext)
    /\ rag \in SeqsOfLen(FollowUpOutcomes, FollowUpLimit)
    /\ phi_detector = <<>>
    /\ llm = <<>>
    /\ ChatLayerDefaults

\* the pieces of the messages given to chat: an e-mail address, a phone
\* number, a word with two development keywords, a question word and a space
ChatTokens == {1, 2, 6, 8, 9}

MaxChatTokens == 2

ChatMessages ==
    {MsgOf(toks) : toks \in SeqsUpTo(ChatTokens, MaxChatTokens)} \cup {NoneText, NotAString}

\* what PHIDetector.analyze gives
PhiOutcomes ==
    {Raises("ValueError"), Returns([detections |-> <<>>]),
     Returns([detections |-> RiskList(<<"Email Address", "Phone Number">>)])}

\* what the first query of the RAG system gives
QueryOutcomes ==
    {Raises("ValueError"), Raises("Exception"), Returns(<<>>),
     Returns(<<Passage(<<"A">>, <<"docs", "policy.md">>, 9)>>)}

\* what OllamaClient.generate gives: a text, None, or an exception
LlmOutcomes ==
    {Raises("Exception"), Returns(<<>>), Returns(<<Txt("generated")>>)}

\* argument of chat and the collaborators of the ChatBot
InitChat ==
    /\ pc = "chat_call"
    /\ text \in ChatMessages
    /\ phi_detector \in PhiOutcomes
    /\ \E first \in QueryOutcomes :
       \E then \in {Raises("Exception"),
                    Returns(<<Passage(<<" ", "a", " ">>, <<"docs", "policy.md">>, 9)>>)} :
            rag = <<first>> \o [k \in 1..FollowUpLimit |-> then]
    /\ llm \in LlmOutcomes
    /\ context_chunks = <<>>
    /\ ChatLayerDefaults

\* multi_step_analysis(ticket_text, initial_context, rag_system)
CallMultiStepAnalysis ==
    /\ pc = "multi_step_call"
    /\ \E r \in {multi_step_analysis(text, context_chunks, rag)} :
         /\ chain' = r.chain
         /\ context_chunks' = r.context
         /\ calls' = r.calls
    /\ pc' = "multi_step_done"
    /\ UNCHANGED <<nlp, text, pattern_results, ner_results, merged_detections, risk_level,
                   redacted_text, has_phi, raised>>
    /\ UNCHANGED <<callers, frames, msg_type, phi_detector, rag, llm, returned>>

\* chat(message, return_prompt, use_cot)
CallChat ==
    /\ pc = "chat_call"
    /\ \E return_prompt \in BOOLEAN : \E use_cot \in BOOLEAN :
         \E r \in {chat(text, [phi_detector |-> phi_detector, rag |-> rag, llm |-> llm],
                        return_prompt, use_cot)} :
            /\ returned' = r.value
            /\ raised' = r.raised
            /\ calls' = r.calls
            /\ pc' = IF return_prompt THEN "chat_prompt_done" ELSE "chat_done"
    /\ UNCHANGED <<nlp, text, pattern_results, ner_results, merged_detections, risk_level,
                   redacted_text, has_phi>>
    /\ UNCHANGED <<callers, frames, chain, msg_type, phi_detector, rag, llm, context_chunks>>

SpecAnalysis == InitMultiStep /\ [][CallMultiStepAnalysis]_vars

SpecChat == InitChat /\ [][CallChat]_vars

---------------------------------------------------------------------------
(* Properties                                                              *)

\* the half-open spans [start, end) of a and b intersect
Intersects(a, b) == ~(a.end <= b.start \/ a.start >= b.end)

\* the number of times d is an element of the list s
Count(s, d) == Cardinality({i \in 1..Len(s) : s[i] = d})

IsSortedByStart(s) == \A i, j \in 1..Len(s) : i < j => s[i].start <= s[j].start

\* value == text[start:end] and 0 <= start <= end
WellFormed(t, d) == 0 <= d.start /\ d.start <= d.end /\ d.value = Slice(t, d.start, d.end)

\* the ascending scan with a cursor over detections sorted by start: the text
\* from the cursor to the next detection, its placeholder, and the cursor
\* moved behind the detection
RECURSIVE CursorScan(_, _, _)
CursorScan(t, sorted_detections, cursor) ==
    IF sorted_detections = <<>> THEN Slice(t, cursor, Len(t))
    ELSE Slice(t, cursor, Head(sorted_detections).start)
         \o Placeholder(Head(sorted_detections).type)
         \o CursorScan(t, Tail(sorted_detections),
                       Max(cursor, Head(sorted_detections).end))

\* C1: no two distinct detections of the list _merge_detections returns have
\* intersecting spans, the pattern_results being what detect_all returns
MergedSpansDisjoint ==
    pc = "returned" =>
        \A i, j \in 1..Len(merged_detections) :
            i # j => ~Intersects(merged_detections[i], merged_detections[j])

\* C2: _merge_detections returns, as a multiset, every item of pattern_results
\* and the items of ner_results that intersect no item of pattern_results;
\* an entity that only touches a grammar span is among the latter
MergeKeepsGrammarAndDisjointEntities ==
    pc = "merge_done" =>
        \A d \in Range(pattern_results) \cup Range(ner_results) \cup Range(merged_detections) :
            Count(merged_detections, d) =
                Count(pattern_results, d)
                + (IF \E k \in 1..Len(pattern_results) : Intersects(d, pattern_results[k])
                   THEN 0 ELSE Count(ner_results, d))

\* a merge with a grammar detection, an entity that touches it and is kept, and
\* an entity that overlaps it and is dropped
MergeTouchingKeptOverlappingDropped ==
    /\ pc = "merge_done"
    /\ \E p \in Range(pattern_results) :
         /\ \E e \in Range(ner_results) :
              /\ e.end = p.start \/ e.start = p.end
              /\ Count(merged_detections, e) = 1
         /\ \E e \in Range(ner_results) :
              /\ Intersects(e, p)
              /\ Count(merged_detections, e) = 0
         /\ Count(merged_detections, p) = 1

\* C3: the redacted_text analyze returns is the text with every detection span
\* replaced by a placeholder and the characters outside all spans kept in
\* order, for every text and well-formed entity detections
RedactedTextReplacesEverySpan ==
    (pc = "returned" /\ \A k \in 1..Len(ner_results) : WellFormed(text, ner_results[k])) =>
        redacted_text = CursorScan(text, merged_detections, 0)

\* C4: for detections with pairwise disjoint spans inside the text, in any
\* order, _redact_text returns what the ascending scan with a cursor returns
SpliceEqualsCursorScan ==
    pc = "redact_done" =>
        redacted_text = CursorScan(text, SortByStart(merged_detections), 0)

\* a redaction of three detections given in an order that is neither
\* ascending nor descending
SpliceOfShuffledDetections ==
    /\ pc = "redact_done"
    /\ Len(merged_detections) = 3
    /\ merged_detections[2].start < merged_detections[1].start
    /\ merged_detections[1].start < merged_detections[3].start
    /\ redacted_text # text

\* C5: _calculate_risk returns HIGH for a list with a detection of type
\* Social Insurance Number (SIN), Credit Card Number or Personal Health
\* Number (PHN), whatever else the list holds
HighRiskTypeGivesHigh ==
    (/\ pc = "risk_done"
     /\ \E k \in 1..Len(merged_detections) :
           merged_detections[k].type \in {"Social Insurance Number (SIN)",
                                          "Credit Card Number",
                                          "Personal Health Number (PHN)"}) =>
        risk_level = "HIGH"

\* a list of three whose last detection alone is of a high-risk type, the
\* health number
HighRiskLastOfThree ==
    /\ pc = "risk_done"
    /\ Len(merged_detections) = 3
    /\ merged_detections[1].type = "Email Address"
    /\ merged_detections[2].type = "NAME"
    /\ merged_detections[3].type = "Personal Health Number (PHN)"
    /\ risk_level = "HIGH"

\* C6 as stated: with no detection of the three types, _calculate_risk
\* returns MEDIUM for three detections or more and LOW for fewer
ThreeTypesAreTheHighRiskSet ==
    (/\ pc = "risk_done"
     /\ \A k \in 1..Len(merged_detections) :
           merged_detections[k].type \notin {"Social Insurance Number (SIN)",
                                             "Credit Card Number",
                                             "Personal Health Number (PHN)"}) =>
        risk_level = IF Len(merged_detections) >= 3 THEN "MEDIUM" ELSE "LOW"

\* C6 amended: the high-risk set is the five types Social Insurance Number
\* (SIN), Credit Card Number, Personal Health Number (PHN), SSN and
\* CreditCard; _calculate_risk returns HIGH exactly for the lists that hold
\* one of them, and for the others MEDIUM for three detections or more and
\* LOW for fewer
FiveTypesAreTheHighRiskSet ==
    pc = "risk_done" =>
        IF \E k \in 1..Len(merged_detections) :
              merged_detections[k].type \in {"Social Insurance Number (SIN)",
                                             "Credit Card Number",
                                             "Personal Health Number (PHN)",
                                             "SSN", "CreditCard"}
        THEN risk_level = "HIGH"
        ELSE risk_level = IF Len(merged_detections) >= 3 THEN "MEDIUM" ELSE "LOW"

\* three detections of no high-risk type give MEDIUM
ThreeOrdinaryGiveMedium ==
    /\ pc = "risk_done"
    /\ Len(merged_detections) = 3
    /\ \A k \in 1..3 : merged_detections[k].type \in {"Email Address", "Phone Number", "NAME"}
    /\ risk_level = "MEDIUM"

\* the exceptions that come from the entity recognizer
NerErrors == {"OSError", "NlpError"}

\* C7: a failure of the entity recognizer, at the load of its model or in
\* detect_entities, does not end the construction or analyze with its
\* exception
RecognizerFailureTolerated ==
    pc \in {"construct_raised", "raised"} => raised \notin NerErrors

\* C8: no malformed detection (value # text[start:end], or start > end) is
\* among the detections analyze returns
MalformedEntityDropped ==
    pc = "returned" =>
        \A k \in 1..Len(merged_detections) : WellFormed(text, merged_detections[k])

\* C9: the list _merge_detections returns and the list detect_all returns are
\* sorted ascending by start
MergeAndDetectAllSorted ==
    /\ pc = "merge_done" => IsSortedByStart(merged_detections)
    /\ pc = "detect_all_done" => IsSortedByStart(pattern_results)

\* a detect_all whose detectors, in the order they are called, give a list
\* that is not sorted
DetectAllOfUnsortedResults ==
    /\ pc = "detect_all_done"
    /\ Len(pattern_results) >= 2
    /\ ~IsSortedByStart(AllResults(text))

\* C10: has_phi is true iff detections is not empty; with no detection
\* risk_level is LOW and redacted_text is the text
HasPhiIffDetections ==
    pc = "returned" =>
        /\ has_phi <=> merged_detections # <<>>
        /\ merged_detections = <<>> => (risk_level = "LOW" /\ redacted_text = text)

\* analyze returning for a text in which nothing is detected
AnalyzeOfTextWithoutPhi ==
    /\ pc = "returned"
    /\ text # <<>>
    /\ merged_detections = <<>>
    /\ ~has_phi
    /\ risk_level = "LOW"

\* C11: for the empty text detect_all returns the empty list and analyze
\* returns has_phi False, risk_level LOW, no detections and the empty
\* redacted_text
EmptyTextGivesEmptyResult ==
    (pc = "returned" /\ text = <<>>) =>
        /\ pattern_results = <<>>
        /\ merged_detections = <<>>
        /\ ~has_phi
        /\ risk_level = "LOW"
        /\ redacted_text = <<>>

\* analyze has returned for the empty text
AnalyzeOfEmptyText ==
    /\ pc = "returned"
    /\ text = <<>>
    /\ ner_results = <<>>
    /\ ~has_phi

\* C12: analyze of the null text does not raise
NoneTextIsValidInput ==
    text = NoneText => pc # "raised"

\* C13: _redact_text(t, []) returns t, and redacting a redacted text again
\* with no detection changes nothing
RedactWithNoDetectionIsIdentity ==
    [][/\ (pc = "redact_call" /\ merged_detections = <<>> /\ pc' = "redact_done")
            => redacted_text' = text
       /\ (pc = "redact_done" /\ pc' = "redact_again_done")
            => redacted_text' = redacted_text]_vars

\* a text redacted with two detections and redacted again with none
RedactedTwiceWithDetections ==
    /\ pc = "redact_again_done"
    /\ Len(merged_detections) = 2
    /\ redacted_text # text
    /\ redacted_text # <<>>

\* a detect_* method or detect_all has returned its list in pattern_results
DetectorDone ==
    pc \in {"detect_all_done", "credit_card_done", "sin_done", "phn_done", "ip_done"}

\* C14: every detection a detect_* method or detect_all returns for a text
\* has 0 <= start < end <= len(text) and value = text[start:end]
GrammarDetectionsAreSubstrings ==
    DetectorDone =>
        \A k \in 1..Len(pattern_results) :
            /\ 0 <= pattern_results[k].start
            /\ pattern_results[k].start < pattern_results[k].end
            /\ pattern_results[k].end <= Len(text)
            /\ pattern_results[k].value
                 = SubSeq(text, pattern_results[k].start + 1, pattern_results[k].end)

\* detect_all has returned two detections, one of them not at the start of
\* the text and ending before the text ends
DetectAllInsideText ==
    /\ pc = "detect_all_done"
    /\ Len(pattern_results) = 2
    /\ pattern_results[2].start > pattern_results[1].end
    /\ pattern_results[2].end < Len(text)

\* the digits of a text, its other characters left out
DigitsOf(t) == SelectSeq(t, LAMBDA c : c \in Digits)

\* the Luhn total of a digit string: counting from the rightmost digit, every
\* second digit doubled and replaced by the sum of its decimal digits
LuhnTotal(ds) ==
    SumSeq([j \in 1..Len(ds) |->
              IF j % 2 = 0
              THEN ((2 * DigitVal(ds[Len(ds) - j + 1])) \div 10)
                   + ((2 * DigitVal(ds[Len(ds) - j + 1])) % 10)
              ELSE DigitVal(ds[Len(ds) - j + 1])])

ClaimedPhnKeywords ==
    {<<"p", "h", "n">>,
     <<"h", "e", "a", "l", "t", "h", " ", "n", "u", "m", "b", "e", "r">>,
     <<"c", "a", "r", "e", " ", "c", "a", "r", "d">>,
     <<"h", "e", "a", "l", "t", "h">>}

\* the text from 20 characters before a detection to 20 characters after it,
\* in lower case
ContextOf(t, d) == Lower(SubSeq(t, Max(0, d.start - 20) + 1, Min(Len(t), d.end + 20)))

\* C16: detect_phn gives a match the confidence 0.9 when the text from 20
\* characters before it to 20 characters after it holds "phn", "health
\* number", "care card" or "health" in any case, and 0.5 otherwise
PhnConfidenceFromClaimedKeywords ==
    pc = "phn_done" =>
        \A k \in 1..Len(pattern_results) :
            pattern_results[k].confidence =
                (IF \E w \in ClaimedPhnKeywords : Contains(ContextOf(text, pattern_results[k]), w)
                 THEN 90 ELSE 50)

\* C17: detect_sin reports a candidate of three groups of three digits, with
\* '-', whitespace or nothing between them, iff its digits are not all the
\* same
SinReportedIffDigitsDiffer ==
    pc = "sin_done" =>
        Len(pattern_results) = (IF Cardinality(Range(DigitsOf(text))) > 1 THEN 1 ELSE 0)

\* C18: detect_ip reports a candidate of four groups of digits iff every
\* group is a number of 0..255; 0.0.0.0 and 255.255.255.255 are reported
IpReportedIffGroupsInRange ==
    pc = "ip_done" =>
        /\ \A o \in IpOctets \X IpOctets \X IpOctets \X IpOctets :
             text = IpText(o) =>
                /\ Len(pattern_results) = (IF \A i \in 1..4 : o[i] \in 0..255 THEN 1 ELSE 0)
                /\ \A k \in 1..Len(pattern_results) : pattern_results[k].value = text
        /\ text \in {<<"0", ".", "0", ".", "0", ".", "0">>,
                     <<"2", "5", "5", ".", "2", "5", "5", ".", "2", "5", "5", ".", "2", "5", "5">>}
             => Len(pattern_results) = 1

\* 255.255.255.255 is reported
IpOfHighestGroupsReported ==
    /\ pc = "ip_done"
    /\ text = <<"2", "5", "5", ".", "2", "5", "5", ".", "2", "5", "5", ".", "2", "5", "5">>
    /\ Len(pattern_results) = 1
    /\ pattern_results[1].type = "IP Address"

\* the placeholders the claim gives for three types
ClaimedPlaceholder(type) ==
    CASE type = "Social Insurance Number (SIN)" ->
            <<"[", "S", "O", "C", "I", "A", "L", "_", "I", "N", "S", "U", "R", "A", "N", "C", "E", "_", "N", "U", "M", "B", "E", "R", "_", "(", "S", "I", "N", ")", "]">>
      [] type = "Email Address" ->
            <<"[", "E", "M", "A", "I", "L", "_", "A", "D", "D", "R", "E", "S", "S", "]">>
      [] type = "NAME" ->
            <<"[", "N", "A", "M", "E", "]">>

\* C19: the placeholder _redact_text writes for a detection is '[', the type
\* in upper case with '_' for every space, and ']', whatever the value and
\* the position of the detection
PlaceholderFromTypeAlone ==
    (pc = "redact_done" /\ Len(merged_detections) = 1) =>
        redacted_text =
            SubSeq(text, 1, merged_detections[1].start)
            \o ClaimedPlaceholder(merged_detections[1].type)
            \o SubSeq(text, merged_detections[1].end + 1, Len(text))

\* a Social Insurance Number (SIN) detection inside a text is redacted
SinPlaceholderInsideText ==
    /\ pc = "redact_done"
    /\ Len(merged_detections) = 1
    /\ merged_detections[1].type = "Social Insurance Number (SIN)"
    /\ merged_detections[1].start = 1
    /\ merged_detections[1].end = 2
    /\ Len(text) = 3

\* the (start, end, type) triple of a detection
Triple(d) == <<d.start, d.end, d.type>>

\* C20: no two detections of the list detect_all returns have the same
\* (start, end, type), and of the raw detections with one triple exactly
\* one, the first produced, is in the list
DetectAllKeepsFirstOfEachTriple ==
    pc = "detect_all_done" =>
        /\ \A i, j \in 1..Len(pattern_results) :
             i # j => Triple(pattern_results[i]) # Triple(pattern_results[j])
        /\ \A k \in 1..Len(AllResults(text)) :
             /\ Cardinality({i \in 1..Len(pattern_results) :
                    Triple(pattern_results[i]) = Triple(AllResults(text)[k])}) = 1
             /\ \E i \in 1..Len(pattern_results) :
                    pattern_results[i] =
                        AllResults(text)[CHOOSE f \in 1..k :
                            /\ Triple(AllResults(text)[f]) = Triple(AllResults(text)[k])
                            /\ \A g \in 1..(f - 1) :
                                 Triple(AllResults(text)[g]) # Triple(AllResults(text)[k])]

\* detect_all has returned two detections of one type, and two that start at
\* the same offset are possible only with different types
DetectAllOfTwoOfOneType ==
    /\ pc = "detect_all_done"
    /\ Len(pattern_results) = 2
    /\ pattern_results[1].type = pattern_results[2].type
    /\ pattern_results[1].start # pattern_results[2].start

\* what analyze returns for an input when no other call runs
ReturnedAlone(input) ==
    Only({[has_phi |-> r.has_phi, risk_level |-> r.risk_level,
           detections |-> r.merged_detections, redacted_text |-> r.redacted_text] :
          r \in {AnalyzeResult(input.text, detect_all(input.text),
                               detect_entities(input.out.ents))}})

\* C21: whatever the other caller does meanwhile and whatever calls came
\* before, a call of analyze that returns returns what it returns alone for
\* its text and recognizer output, and it raises only when it raises alone
AnalyzeCallsIndependent ==
    \A c \in Callers :
        /\ callers[c].pc = "returned" =>
             /\ ~detect_all_raises(callers[c].input.text)
             /\ ~callers[c].input.out.raises
             /\ callers[c].result = ReturnedAlone(callers[c].input)
        /\ callers[c].pc = "raised" =>
             (detect_all_raises(callers[c].input.text) \/ callers[c].input.out.raises)

\* a caller's second call has returned detections while the other caller is
\* in the middle of a call on another text
SecondCallReturnedDuringOtherCall ==
    \E c, o \in Callers :
        /\ c # o
        /\ callers[c].pc = "returned"
        /\ callers[c].calls = MaxCalls
        /\ callers[c].result.detections # <<>>
        /\ callers[o].pc \in {"merge", "risk", "redact", "return"}
        /\ callers[o].input.text # callers[c].input.text
        /\ frames[o].pattern_results # <<>>

\* C22: a call of _merge_detections leaves the lists pattern_results and
\* ner_results as they were (length, order and every field of every
\* detection), and a call of _calculate_risk or _redact_text leaves the list
\* of detections and the text as they were
CallsLeaveArgumentsUnchanged ==
    [][/\ pc = "merge_call" =>
            (pattern_results' = pattern_results /\ ner_results' = ner_results)
       /\ pc \in {"risk_call", "redact_call"} =>
            (merged_detections' = merged_detections /\ text' = text)]_vars

\* _merge_detections has returned a list in another order than its
\* arguments, with an entity before a grammar detection
MergeResultReordered ==
    /\ pc = "merge_done"
    /\ Len(pattern_results) >= 1
    /\ Len(ner_results) >= 1
    /\ Len(merged_detections) = Len(pattern_results) + Len(ner_results)
    /\ merged_detections # pattern_results \o ner_results
    /\ ~IsSortedByStart(pattern_results)

\* the identifiers the critical set is said to hold
ClaimedCritical ==
    {"Social Insurance Number (SIN)", "Personal Health Number (PHN)", "Credit Card Number",
     "SSN"}

\* C23: _assess_risk_level decides by the first case that applies: LOW for
\* no detection; CRITICAL for a type of the critical set, which holds the
\* SIN, the PHN, the card number and the SSN; else HIGH for a type of the
\* high-risk set; else, for a type of the medium-risk set, HIGH above five
\* detections and MEDIUM up to five; else LOW
AssessRiskIsFirstMatch ==
    pc = "assess_done" =>
        \E types \in {DetectedTypes(merged_detections)} :
            /\ merged_detections = <<>> => risk_level = "LOW"
            /\ types \cap ClaimedCritical # {} => risk_level = "CRITICAL"
            /\ types \cap critical_types # {} => risk_level = "CRITICAL"
            /\ (types \cap critical_types = {} /\ types \cap assess_high_risk_types # {})
                 => risk_level = "HIGH"
            /\ ( /\ types \cap critical_types = {}
                 /\ types \cap assess_high_risk_types = {}
                 /\ types \cap medium_risk_types # {} )
                 => risk_level = IF Len(merged_detections) > 5 THEN "HIGH" ELSE "MEDIUM"
            /\ ( /\ types \cap critical_types = {}
                 /\ types \cap assess_high_risk_types = {}
                 /\ types \cap medium_risk_types = {} )
                 => risk_level = "LOW"
            /\ ( /\ Len(merged_detections) = 1
                 /\ types \subseteq {"Email Address", "Phone Number"} )
                 => risk_level = "MEDIUM"

\* six detections of three types, none critical or high-risk and one type
\* of the medium-risk set, have been assessed HIGH
AssessSixOrdinaryGiveHigh ==
    /\ pc = "assess_done"
    /\ Len(merged_detections) = 6
    /\ DetectedTypes(merged_detections) \cap (critical_types \cup assess_high_risk_types) = {}
    /\ Cardinality(DetectedTypes(merged_detections) \cap medium_risk_types) = 1
    /\ Cardinality(DetectedTypes(merged_detections)) = 3
    /\ risk_level = "HIGH"

\* C24: the level _assess_risk_level returns is the first line of the
\* conclusion of the chain assess_risk builds from the same detections and
\* the same three sets
AssessedLevelIsChainConclusion ==
    pc = "assess_done" =>
        /\ chain.final_conclusion # <<>>
        /\ chain.final_conclusion[1] = Txt(risk_level)

\* five detections of the medium-risk set alone: MEDIUM, one below the
\* escalation, with the chain of three steps
AssessFiveMediumChain ==
    /\ pc = "assess_done"
    /\ Len(merged_detections) = 5
    /\ DetectedTypes(merged_detections) \subseteq medium_risk_types
    /\ risk_level = "MEDIUM"
    /\ Len(chain.steps) = 3
    /\ Len(chain.final_conclusion) = 3

\* C25: the steps of every chain built are numbered 1, 2, 3, ... in the
\* order they are in: the chains _assess_risk_level builds with add_step and
\* the chain _classify_message returns, the one put together from the steps
\* of the PII chain and of the development chain included
StepsNumberedConsecutively ==
    \A i \in 1..Len(chain.steps) : chain.steps[i].step_num = i

ClassifyDone == pc \in {"classify_done", "classify_reasoning_done"}

\* how many of the five PII patterns the message matches, how many
\* development keywords it has and whether it has a question word
PiiPatternsMatched(message) ==
    Only({Cardinality({k \in 1..5 : found[k]}) : found \in {patterns(message)}})

DevKeywordsIn(message) ==
    Only({Cardinality({k \in 1..Len(dev_keywords) : Contains(lower, dev_keywords[k])}) :
          lower \in {Lower(message)}})

QuestionWordIn(message) ==
    \E lower \in {Lower(message)} :
        \E k \in 1..Len(question_words) : Contains(lower, question_words[k])

\* the label the decision of the claim gives a message that is a string
ClaimedLabel(message) ==
    IF \A k \in 1..Len(message) : message[k] \in SpaceChars THEN "question"
    ELSE IF PiiPatternsMatched(message) >= 2 THEN "pii_ticket"
    ELSE IF DevKeywordsIn(message) >= 2 /\ QuestionWordIn(message) THEN "dev_ticket"
    ELSE "question"

\* C29: _classify_message returns one of the three labels by the first case
\* that applies: question for an empty or blank message, pii_ticket for two
\* or more of the five PII patterns whatever else the message has,
\* dev_ticket for two development keywords and a question word, question
\* otherwise and on an internal error; the label is the same with and
\* without return_reasoning
ClassifyIsFirstMatch ==
    ClassifyDone =>
        /\ msg_type \in {"pii_ticket", "dev_ticket", "question"}
        /\ text \in {NoneText, NotAString} => msg_type = "question"
        /\ text \notin {NoneText, NotAString} => msg_type = ClaimedLabel(text)
        /\ msg_type = _classify_message(text, pc # "classify_reasoning_done").label

\* a message with two PII patterns, two development keywords and a question
\* word has been classified
ClassifiedPiiWithDevAndQuestion ==
    /\ pc = "classify_reasoning_done"
    /\ text \notin {NoneText, NotAString}
    /\ PiiPatternsMatched(text) >= 2
    /\ DevKeywordsIn(text) >= 2
    /\ QuestionWordIn(text)
    /\ msg_type = "pii_ticket"
    /\ Len(chain.steps) = 1


\* the type names of the canonical vocabulary: the eight of the pattern
\* detectors and the four of the entity recognizer
CanonicalTypes ==
    {"Social Insurance Number (SIN)", "Personal Health Number (PHN)", "Phone Number",
     "Email Address", "Credit Card Number", "Postal Code", "IP Address", "Date",
     "NAME", "LOCATION", "ORGANIZATION", "DATE"}

\* the order LOW < MEDIUM < HIGH < CRITICAL
Rank(level) ==
    CASE level = "LOW" -> 0
      [] level = "MEDIUM" -> 1
      [] level = "HIGH" -> 2
      [] level = "CRITICAL" -> 3

\* C26: for a list of detections whose types are all of the canonical
\* vocabulary, the level _assess_risk_level returns is at least as severe as
\* the level _calculate_risk returns for the same list
EscalationNeverBelowCore ==
    (/\ pc = "assess_done"
     /\ \A k \in 1..Len(merged_detections) : merged_detections[k].type \in CanonicalTypes)
    => Rank(risk_level) >= Rank(_calculate_risk(merged_detections))

\* the list with one more detection of the given type at its end
WithOneMore(detections, type) ==
    Append(detections, Det(type, <<"x">>, Len(detections), Len(detections) + 1, 85, ""))

\* C27: _calculate_risk is monotone: the level of a list with one more
\* detection of any type at its end is never below the level of the list,
\* in the order LOW < MEDIUM < HIGH
AppendNeverLowersRisk ==
    pc = "risk_done" =>
        \A type \in RiskTypes :
            Rank(_calculate_risk(WithOneMore(merged_detections, type))) >= Rank(risk_level)

\* two detections of no high-risk type were rated LOW and a third one makes
\* the list MEDIUM
ThirdDetectionRaisesLowToMedium ==
    /\ pc = "risk_done"
    /\ Len(merged_detections) = 2
    /\ risk_level = "LOW"
    /\ _calculate_risk(WithOneMore(merged_detections, "NAME")) = "MEDIUM"

\* the normalized text of the claim: stripped, lower-cased, the first 200
\* characters
ClaimedNormalized(passage_text) ==
    Only({[k \in 1..Min(Len(stripped), NormalizedLength) |-> LowerChar(stripped[k])] :
          stripped \in {strip(passage_text)}})

\* the normalized texts of the passages of a list
NormalizedTexts(context) ==
    [i \in 1..Len(context) |-> ClaimedNormalized(context[i].text)]

\* no two of the texts are the same
NoTwoSame(normalized) ==
    \A i, j \in 1..Len(normalized) : i < j => normalized[i] # normalized[j]

\* the passages retrieved, in retrieval order: the initial context, then
\* what the first n follow-up queries gave (nothing when a query raised)
RECURSIVE Retrieved(_, _, _)
Retrieved(initial_context, rag_system, n) ==
    IF n = 0 THEN initial_context
    ELSE Retrieved(initial_context, rag_system, n - 1) \o rag_system[n].value

\* the places among the first n where a text occurs that no earlier place has
FirstPlaces(normalized, n) ==
    {i \in 1..n : \A j \in 1..(i - 1) : normalized[j] # normalized[i]}

\* the passages at the given places, in their order
PassagesAt(context, places) ==
    [k \in 1..Cardinality(places) |->
        context[CHOOSE i \in places : Cardinality({j \in places : j <= i}) = k]]

IsPrefix(s, t) == Len(s) <= Len(t) /\ SubSeq(t, 1, Len(s)) = s

\* what the claim says of one call, from the initial context to the context
\* returned after the queries made
ClaimedOfAnalysis(initial_context, rag_system, made, context) ==
    /\ \E normalized \in {NormalizedTexts(context)} : NoTwoSame(normalized)
    /\ made <= 2
    /\ \E all \in {Retrieved(initial_context, rag_system, made)} :
       \E normalized \in {NormalizedTexts(all)} :
          /\ context = PassagesAt(all, FirstPlaces(normalized, Len(all)))
          /\ \A k \in 1..made :
                rag_system[k].raised # "none" =>
                   IsPrefix(PassagesAt(all, FirstPlaces(normalized,
                               Len(Retrieved(initial_context, rag_system, k - 1)))),
                            context)

\* C30: the context multi_step_analysis returns has no two passages of the
\* same normalized text (stripped, lower-cased, first 200 characters); it is
\* the passages retrieved, the initial context first, each kept where it
\* first occurs; at most two follow-up queries are made; and what was
\* collected before a follow-up query that raises is all in the context
AnalysisKeepsFirstOccurrences ==
    [][(pc = "multi_step_call" /\ pc' = "multi_step_done")
       => ClaimedOfAnalysis(context_chunks, rag, Len(calls'), context_chunks')]_vars

\* the first follow-up query raised, the second gave a passage longer than
\* the normalized length that is left out of the context, which has a
\* passage of the same first 200 characters
FollowUpRaisedAndLongDuplicateDropped ==
    /\ pc = "multi_step_done"
    /\ Len(calls) = 2
    /\ rag[1].raised # "none"
    /\ \E k \in 1..Len(rag[2].value) : \E j \in 1..Len(context_chunks) :
          /\ Len(rag[2].value[k].text) > NormalizedLength
          /\ rag[2].value[k].text # context_chunks[j].text
          /\ ClaimedNormalized(rag[2].value[k].text) = ClaimedNormalized(context_chunks[j].text)

\* an empty or blank message: a string of no character but blanks
EmptyOrBlank(message) ==
    /\ message \notin {NoneText, NotAString}
    /\ \A k \in 1..Len(message) : message[k] \in SpaceChars

\* C28: chat(message, return_prompt=True) never raises, whatever the message
\* and whatever the PHI analysis, the RAG queries and the LLM give or raise:
\* it returns a tuple of four components whose last is 'pii_ticket',
\* 'dev_ticket' or 'question'; for an empty or blank message it returns the
\* fixed reply asking for a message and has called no collaborator
ChatNeverRaises ==
    pc = "chat_prompt_done" =>
        /\ raised = "none"
        /\ Len(returned) = 4
        /\ returned[4] \in {"pii_ticket", "dev_ticket", "question"}
        /\ EmptyOrBlank(text) =>
              /\ returned[1] = Txt("Please provide a message or question.")
              /\ returned[2] = Txt("")
              /\ DOMAIN returned[3] = {}
              /\ returned[4] = "question"
              /\ calls = <<>>

\* a message with an e-mail address and a phone number was routed to
\* analyze_ticket, the PHI analysis raised, and chat returned its tuple of
\* type 'pii_ticket' after that one call
ChatReturnedPiiTicketAfterAnalysisRaised ==
    /\ pc = "chat_prompt_done"
    /\ phi_detector.raised # "none"
    /\ calls = <<"phi_detector.analyze">>
    /\ Len(returned) = 4
    /\ returned[4] = "pii_ticket"
    /\ returned[1] = Fmt("Error analyzing ticket: {}", {}, 0, phi_detector.raised)
=============================================================================
